---- MODULE Spec2Model ----
(***************************************************************************)
(* Admission pipeline of the bot: join request -> /start deep link ->      *)
(* visual captcha -> answer verification with bounded retries and          *)
(* cooldown -> approval through the platform -> post-approval mute         *)
(* decision.  The ephemeral store is Redis (keys with a TTL in seconds),   *)
(* the per-user handler state is the aiogram FSM context.                  *)
(***************************************************************************)
EXTENDS Integers, Sequences, FiniteSets, TLC

(***************************************************************************)
(* Program constants                                                       *)
(***************************************************************************)
CAPTCHA_TTL == 300
RATE_LIMIT_SECONDS == 60
CAPTCHA_PASSED_TTL == 3600
JOIN_REQUEST_TTL == 3600
MAX_ATTEMPTS == 3
\* schedule_captcha_reminder: delay_minutes * 60 with delay_minutes = 2
REMINDER_DELAY == 120

(***************************************************************************)
(* Bounds of the model                                                     *)
(***************************************************************************)
\* number of clock advances explored
MaxTicks == 2
\* consecutive deliveries of one member-state-changed signal that are counted
MaxDeliveries == 2

Users == {"u1"}
\* c1 is a private community (no username), c2 a public one (username "c2")
Communities == {"c1", "c2"}
NoChat == "nochat"

IsPublic(c) == c = "c2"

\* the group identifier put into the deep link: username or private_<id>
GroupIdOf(c) == IF IsPublic(c) THEN "c2" ELSE "private_c1"

\* payloads after "deep_link_": the two communities and the empty payload
GroupNames == {"private_c1", "c2", ""}
\* what follows /start: a group payload behind the deep_link_ prefix, or
\* something that does not carry the prefix
BadPayload == "bad"

\* the clock advances by one of the store's TTLs
TickSteps == {RATE_LIMIT_SECONDS, CAPTCHA_TTL, CAPTCHA_PASSED_TTL}

(***************************************************************************)
(* Text: a string is a sequence of one-character strings                   *)
(***************************************************************************)
Whitespace == {" "}

ToUpper(ch) ==
    CASE ch = "a" -> "A"
      [] ch = "b" -> "B"
      [] OTHER -> ch

\* str.upper()
Upper(s) == [i \in 1..Len(s) |-> ToUpper(s[i])]

RECURSIVE LStrip(_)
LStrip(s) ==
    IF s # <<>> /\ Head(s) \in Whitespace THEN LStrip(Tail(s)) ELSE s

RECURSIVE RStrip(_)
RStrip(s) ==
    IF s # <<>> /\ s[Len(s)] \in Whitespace
    THEN RStrip(SubSeq(s, 1, Len(s) - 1))
    ELSE s

\* str.strip()
Strip(s) == RStrip(LStrip(s))

\* answers generate_visual_captcha can return (digits and upper-case letters)
Answers == {<<"A", "B">>, <<"7">>}

\* texts a user can submit
Texts ==
    { <<"A", "B">>, <<" ", "a", "B", " ">>, <<"A", " ", "B">>, <<"7", " ">>, <<"b">> }

(***************************************************************************)
(* Platform responses seen by approve_chat_join_request                    *)
(***************************************************************************)
\* one approve call: success; an error whose text has "429" and the hint as
\* "retry_after":<n> (rl_hint), "429" and the hint in another notation such as
\* "retry_after": <n> (rl_text), "429" and no hint (rl); any other error (err)
ApproveOutcomes == {"ok", "rl_hint", "rl_text", "rl", "err"}

\* "429" in str(e)
IsRateLimited(r) == r \in {"rl_hint", "rl_text", "rl"}

\* "retry_after" in str(e): the response carries a retry-after hint
CarriesHint(r) == r \in {"rl_hint", "rl_text"}

\* the seconds a retry-after hint can name
HintSeconds == {20, 40}

max_retries == 3
\* int(match.group(1)) + 5
RETRY_MARGIN == 5
\* 20 + attempt * 10
RETRY_BASE == 20
RETRY_STEP == 10

\* hints: the retry-after seconds of the three approve responses, where carried
RespWith(chat, approve, hints, invite, chat2, invite2) ==
    [chat |-> chat, approve |-> approve, hints |-> hints, invite |-> invite,
     chat2 |-> chat2, invite2 |-> invite2]

Resp(chat, a1, a2, a3, invite, chat2, invite2) ==
    RespWith(chat, <<a1, a2, a3>>, <<20, 20, 20>>, invite, chat2, invite2)

\* the response patterns the answer handler is run against
HandlerResponses ==
    { Resp(TRUE, "ok", "ok", "ok", TRUE, TRUE, TRUE),
      Resp(TRUE, "rl_hint", "rl", "ok", TRUE, TRUE, TRUE),
      Resp(TRUE, "rl", "rl_hint", "rl", TRUE, TRUE, TRUE),
      Resp(TRUE, "err", "ok", "ok", TRUE, TRUE, FALSE) }

\* the response patterns approve_chat_join_request is run against on its own
GatewayResponses ==
    { RespWith(chat, approve, hints, invite, chat2, invite2) :
        chat \in BOOLEAN, approve \in [1..max_retries -> ApproveOutcomes],
        hints \in [1..max_retries -> HintSeconds],
        invite \in BOOLEAN, chat2 \in BOOLEAN, invite2 \in BOOLEAN }

\* the sleep before the next attempt: the parsed hint plus 5, else 20, 30, 40
RetryDelay(r, hint, attempt) ==
    IF r = "rl_hint" THEN hint + RETRY_MARGIN
    ELSE RETRY_BASE + attempt * RETRY_STEP

\* a loop that tries again after any error
RECURSIVE ApproveLoopRetryAny(_, _, _)
ApproveLoopRetryAny(rs, hs, attempt) ==
    IF rs[attempt + 1] = "ok"
    THEN [ok |-> TRUE, calls |-> attempt + 1, delays |-> <<>>]
    ELSE IF attempt < max_retries - 1
         THEN LET rest == ApproveLoopRetryAny(rs, hs, attempt + 1) IN
              [rest EXCEPT !.delays =
                  <<RetryDelay(rs[attempt + 1], hs[attempt + 1], attempt)>> \o @]
         ELSE [ok |-> FALSE, calls |-> attempt + 1, delays |-> <<>>]

\* the retry loop from `attempt` on: whether a call succeeded, the calls made
\* up to the last one, and the sleeps between this call and the last one
RECURSIVE ApproveLoop(_, _, _)
ApproveLoop(rs, hs, attempt) ==
    IF rs[attempt + 1] = "ok"
    THEN [ok |-> TRUE, calls |-> attempt + 1, delays |-> <<>>]
    ELSE IF IsRateLimited(rs[attempt + 1]) /\ attempt < max_retries - 1
         THEN LET rest == ApproveLoop(rs, hs, attempt + 1) IN
              [rest EXCEPT !.delays =
                  <<RetryDelay(rs[attempt + 1], hs[attempt + 1], attempt)>> \o @]
         ELSE [ok |-> FALSE, calls |-> attempt + 1, delays |-> <<>>]

\* the link of the fallback path (after an exception)
FallbackLink(c, resp) ==
    IF ~resp.chat2 THEN "none"
    ELSE IF IsPublic(c) THEN "username"
    ELSE IF resp.invite2 THEN "invite" ELSE "none"

\* the platform calls up to the exception: get_chat, the approve calls, and
\* create_chat_invite_link when the approval was through
CallsBeforeFailure(success, loop) == 1 + loop.calls + (IF success THEN 1 ELSE 0)

\* the sleeps up to the exception: 5 s at the start, one per retry, 5 s before
\* the invite
SleepsBeforeFailure(success, loop) == 1 + Len(loop.delays) + (IF success THEN 1 ELSE 0)

\* the platform calls of the fallback: get_chat, and create_chat_invite_link
\* for a chat without username
FallbackCalls(c, resp) == 1 + (IF resp.chat2 /\ ~IsPublic(c) THEN 1 ELSE 0)

\* the result when the except branch returns without trying the fallback link
GatewayFailedNoFallback(c, resp, success, loop) ==
    [success |-> success, message |-> "failed", group_link |-> "none",
     calls |-> loop.calls, delays |-> loop.delays, fallback |-> FALSE,
     platform |-> CallsBeforeFailure(success, loop),
     sleeps |-> SleepsBeforeFailure(success, loop), raised |-> FALSE]

\* an except branch whose fallback lets its own exception out
GatewayFailedFallbackRaises(c, resp, success, loop) ==
    [success |-> success, message |-> "failed", group_link |-> FallbackLink(c, resp),
     calls |-> loop.calls, delays |-> loop.delays, fallback |-> TRUE,
     platform |-> CallsBeforeFailure(success, loop) + FallbackCalls(c, resp),
     sleeps |-> SleepsBeforeFailure(success, loop) + 1,
     raised |-> FallbackLink(c, resp) = "none"]

\* the except branch: the failure message, sleep(0.5), then the fallback link
\* inside a try of its own; `return result` follows in every case
GatewayFailed(c, resp, success, loop) ==
    [success |-> success, message |-> "failed", group_link |-> FallbackLink(c, resp),
     calls |-> loop.calls, delays |-> loop.delays, fallback |-> TRUE,
     platform |-> CallsBeforeFailure(success, loop) + FallbackCalls(c, resp),
     sleeps |-> SleepsBeforeFailure(success, loop) + 1,
     raised |-> FALSE]

\* the result after the loop succeeded and the link was made
GatewayApproved(link, loop) ==
    [success |-> TRUE, message |-> "approved", group_link |-> link,
     calls |-> loop.calls, delays |-> loop.delays, fallback |-> FALSE,
     platform |-> 1 + loop.calls + (IF link = "invite" THEN 1 ELSE 0),
     sleeps |-> 1 + Len(loop.delays) + (IF link = "invite" THEN 1 ELSE 0),
     raised |-> FALSE]

\* approve_chat_join_request(bot, chat_id, user_id) against one response pattern
ApproveChatJoinRequest(c, resp) ==
    IF ~resp.chat
    THEN GatewayFailed(c, resp, FALSE, [ok |-> FALSE, calls |-> 0, delays |-> <<>>])
    ELSE LET loop == ApproveLoop(resp.approve, resp.hints, 0) IN
         IF ~loop.ok THEN GatewayFailed(c, resp, FALSE, loop)
         ELSE IF IsPublic(c) THEN GatewayApproved("username", loop)
         ELSE IF resp.invite THEN GatewayApproved("invite", loop)
         ELSE GatewayFailed(c, resp, TRUE, loop)

(***************************************************************************)
(* The ephemeral store: keys with a remaining TTL in seconds               *)
(***************************************************************************)
\* key of the Session record of a user
CaptchaKey(u) == <<"captcha", u>>

\* redis.setex(key, ttl, value) on a set of records
Setex(store, rec) == {r \in store : r.key # rec.key} \cup {rec}

\* redis.delete(key)
Del(store, key) == {r \in store : r.key # key}

\* a save that leaves the attempts argument at its default of 0
SaveCaptchaDataDefaultAttempts(store, u, a, g, n) ==
    Setex(store, [key |-> CaptchaKey(u), answer |-> a, group |-> g,
                  attempts |-> 0, ttl |-> CAPTCHA_TTL])

\* a save under a key per user and group
SaveCaptchaDataPerGroup(store, u, a, g, n) ==
    Setex(store, [key |-> <<"captcha", u, g>>, answer |-> a, group |-> g,
                  attempts |-> n, ttl |-> CAPTCHA_TTL])

\* save_captcha_data: the record "answer:group:attempts" under captcha:<user>
SaveCaptchaData(store, u, a, g, n) ==
    Setex(store, [key |-> CaptchaKey(u), answer |-> a, group |-> g,
                  attempts |-> n, ttl |-> CAPTCHA_TTL])

NoData == [has |-> FALSE, answer |-> <<>>, group |-> "", attempts |-> 0]

\* get_captcha_data: the parsed record, or NoData
GetCaptchaData(store, u) ==
    IF \E r \in store : r.key = CaptchaKey(u)
    THEN LET r == CHOOSE r \in store : r.key = CaptchaKey(u) IN
         [has |-> TRUE, answer |-> r.answer, group |-> r.group, attempts |-> r.attempts]
    ELSE NoData

\* the state of the FSM context after state.clear()
Cleared == [state |-> "none", data |-> NoData]

\* the Session records the store holds for user u, under whatever key
SessionsOf(store, u) == {r \in store : r.key[2] = u}

VARIABLES
    fsm,          \* per-user FSM context: state and data (answer, group, attempts)
    captcha,      \* store: the captcha:<user> records
    rate,         \* store: remaining TTL of rate_limit:<user> (0: absent)
    passed,       \* store: remaining TTL of captcha_passed:<user>:<chat> (0: absent)
    joinReq,      \* store: join_request:<user>:<group> -> chat id, with TTL
    captchaOn,    \* store: visual_captcha_enabled:<chat>
    muteCache,    \* store: group:<chat>:mute_new_members ("none", "0", "1")
    muteDb,       \* database: ChatSettings.mute_new_members ("none", "0", "1")
    approvedAgo,  \* seconds since the platform last approved (user, chat); -1: never
    now,          \* number of clock advances so far
    out,          \* what the last handler did
    timers,       \* the sleeping schedule_captcha_reminder tasks
    gate,         \* approve_chat_join_request on its own: responses and result
    run,          \* position in a scripted run, and what the run has seen
    tasks         \* handler runs that are suspended at an await

vars == <<fsm, captcha, rate, passed, joinReq, captchaOn, muteCache, muteDb,
          approvedAgo, now, out, timers, gate, run, tasks>>

\* the variables only the specifications of the gateway, of the scripted runs
\* and of the suspended handler runs use
aux == <<gate, run, tasks>>

\* a specification that does not follow the reminder tasks the handlers start
unfollowed == <<timers, gate, run, tasks>>

NoReq == [chat |-> NoChat, ttl |-> 0]

\* nothing in the variables a specification does not use
NoGate == [pc |-> "idle"]
NoRun == [step |-> 0]
NoTasks == <<>>

\* op, user, chat: the handler and its event; branch: the path it took;
\* gw: the result of approve_chat_join_request; challenge: whether a captcha was
\* generated or also sent; exact: the text was the expected answer verbatim;
\* had: the key the handler writes was there before; restrict: restrict_chat_member
\* was called; ret: the handler's return value; n: deliveries of this signal in a
\* row; reminded: the reminder tasks that called send_captcha_reminder; days:
\* the until_date of the restrict call, in days from now; flag: whether
\* track_captcha_failure was called, and how it ended
NoOut ==
    [op |-> "init", user |-> "u1", chat |-> NoChat, branch |-> "none",
     gw |-> "none", challenge |-> "none", exact |-> FALSE, had |-> FALSE,
     restrict |-> FALSE, ret |-> FALSE, n |-> 0, reminded |-> {},
     days |-> 0, flag |-> "none"]

\* the join requests handled just before the run starts
JoinedAtStart(cs) ==
    [u \in Users |-> [g \in GroupNames |->
        IF \E c \in cs : GroupIdOf(c) = g
        THEN [chat |-> CHOOSE c \in cs : GroupIdOf(c) = g, ttl |-> JOIN_REQUEST_TTL]
        ELSE NoReq]]

\* admission: nothing stored but the join request of the user, if any, to the
\* public community (the answer handler reads no record for a private_<id> name)
Init ==
    /\ fsm = [u \in Users |-> Cleared]
    /\ captcha = {}
    /\ rate = [u \in Users |-> 0]
    /\ passed = [u \in Users |-> [c \in Communities |-> 0]]
    /\ \E cs \in SUBSET {c \in Communities : IsPublic(c)} :
          joinReq = JoinedAtStart(cs)
    /\ captchaOn = [c \in Communities |-> TRUE]
    /\ muteCache = [c \in Communities |-> "none"]
    /\ muteDb = [c \in Communities |-> "none"]
    /\ approvedAgo = [u \in Users |-> [c \in Communities |-> -1]]
    /\ now = 0
    /\ out = NoOut
    /\ timers = {}
    /\ gate = NoGate
    /\ run = NoRun
    /\ tasks = NoTasks

(***************************************************************************)
(* Time: every key loses d seconds and is gone when nothing is left        *)
(***************************************************************************)
Age(ttl, d) == IF ttl > d THEN ttl - d ELSE 0

Older(ago, d) ==
    IF ago < 0 THEN ago
    ELSE IF ago + d > CAPTCHA_PASSED_TTL THEN CAPTCHA_PASSED_TTL ELSE ago + d

\* a reminder task that does not compare the group of the record
ReminderDueAnyGroup(store, tm) ==
    \E r \in store : r.key = CaptchaKey(tm.user) /\ r.ttl > tm.left

\* schedule_captcha_reminder after its sleep: the reminder is sent when the
\* captcha:<user> record is there at that moment and names the same group
ReminderDue(store, tm) ==
    \E r \in store :
        r.key = CaptchaKey(tm.user) /\ r.ttl > tm.left /\ r.group = tm.group

\* asyncio.create_task(schedule_captcha_reminder(bot, user_id, group_name, 2))
ScheduleReminder(tms, u, g) ==
    tms \cup {[user |-> u, group |-> g, left |-> REMINDER_DELAY]}

Tick(d) ==
    /\ now < MaxTicks
    /\ now' = now + 1
    /\ captcha' = {[r EXCEPT !.ttl = r.ttl - d] : r \in {x \in captcha : x.ttl > d}}
    /\ rate' = [u \in Users |-> Age(rate[u], d)]
    /\ passed' = [u \in Users |-> [c \in Communities |-> Age(passed[u][c], d)]]
    /\ joinReq' = [u \in Users |-> [g \in GroupNames |->
                     IF joinReq[u][g].ttl > d
                     THEN [joinReq[u][g] EXCEPT !.ttl = joinReq[u][g].ttl - d]
                     ELSE NoReq]]
    /\ approvedAgo' = [u \in Users |-> [c \in Communities |-> Older(approvedAgo[u][c], d)]]
    /\ timers' = {[tm EXCEPT !.left = tm.left - d] : tm \in {x \in timers : x.left > d}}
    /\ out' = [NoOut EXCEPT !.op = "tick",
                            !.branch = IF \E r \in captcha : r.ttl <= d
                                       THEN "session_expired" ELSE "none",
                            !.reminded =
                                {x \in timers : x.left <= d /\ ReminderDue(captcha, x)}]
    /\ UNCHANGED <<fsm, captchaOn, muteCache, muteDb>>

(***************************************************************************)
(* handle_join_request                                                     *)
(***************************************************************************)
\* save_join_request: join_request:<user>:<group_id> -> chat id, for one hour
SaveJoinRequest(jr, u, c, g) ==
    [jr EXCEPT ![u][g] = [chat |-> c, ttl |-> JOIN_REQUEST_TTL]]

HandleJoinRequest(u, c) ==
    /\ IF ~captchaOn[c]
       THEN /\ joinReq' = joinReq
            /\ out' = [NoOut EXCEPT !.op = "join", !.user = u, !.chat = c,
                                    !.branch = "disabled"]
       ELSE \E sent \in BOOLEAN :
            /\ joinReq' = SaveJoinRequest(joinReq, u, c, GroupIdOf(c))
            /\ out' = [NoOut EXCEPT !.op = "join", !.user = u, !.chat = c,
                          !.branch = IF sent THEN "prompted" ELSE "undelivered"]
    /\ UNCHANGED <<fsm, captcha, rate, passed, captchaOn, muteCache, muteDb,
                   approvedAgo, now>>

\* set_visual_captcha_status, from the settings callback
SetVisualCaptchaStatus(c, enabled) ==
    /\ captchaOn[c] # enabled
    /\ captchaOn' = [captchaOn EXCEPT ![c] = enabled]
    /\ out' = [NoOut EXCEPT !.op = "setcaptcha", !.chat = c]
    /\ UNCHANGED <<fsm, captcha, rate, passed, joinReq, muteCache, muteDb,
                   approvedAgo, now>>

(***************************************************************************)
(* process_visual_captcha_deep_link: /start deep_link_<group>              *)
(***************************************************************************)
\* the drawn challenge when generate_visual_captcha raises (no answer)
GenFail == <<>>

\* state.update_data(captcha_answer, group_name, attempts=0): the state is kept
FsmNewChallenge(f, a, g) ==
    [f EXCEPT !.data = [has |-> TRUE, answer |-> a, group |-> g, attempts |-> 0]]

ProcessVisualCaptchaDeepLink(u, p) ==
    /\ LET o == [NoOut EXCEPT !.op = "start", !.user = u] IN
       IF p = BadPayload
       THEN \E reply \in BOOLEAN :
            \* "Неверная ссылка": a failed reply ends in the outer except
            /\ fsm' = IF reply THEN fsm ELSE [fsm EXCEPT ![u] = Cleared]
            /\ captcha' = captcha
            /\ out' = [o EXCEPT !.branch = "bad_link"]
       ELSE \E g \in Answers \cup {GenFail}, delivered \in BOOLEAN :
            IF g = GenFail
            THEN \* generate_visual_captcha raised: outer except, state.clear()
                 /\ delivered
                 /\ fsm' = [fsm EXCEPT ![u] = Cleared]
                 /\ captcha' = captcha
                 /\ out' = [o EXCEPT !.branch = "gen_failed"]
            ELSE /\ captcha' = SaveCaptchaData(captcha, u, g, p, 0)
                 /\ fsm' = IF delivered
                           THEN [fsm EXCEPT ![u] = [FsmNewChallenge(fsm[u], g, p)
                                                     EXCEPT !.state = "waiting"]]
                           ELSE [fsm EXCEPT ![u] = Cleared]
                 /\ out' = [o EXCEPT !.branch = IF delivered THEN "issued"
                                                 ELSE "undelivered",
                                     !.challenge = IF delivered THEN "emitted"
                                                    ELSE "generated",
                                     !.had = SessionsOf(captcha, u) # {}]
    /\ UNCHANGED <<rate, passed, joinReq, captchaOn, muteCache, muteDb,
                   approvedAgo, now>>

(***************************************************************************)
(* process_captcha_answer: a message while the FSM state is                *)
(* waiting_for_captcha                                                     *)
(***************************************************************************)
\* check_rate_limit
CheckRateLimit(r, u) == r[u] > 0

\* redis.ttl: the seconds left, -2 for a missing key
RedisTtl(r, u) == IF r[u] > 0 THEN r[u] ELSE -2

\* a time left that is the full limit whatever the key holds
GetRateLimitTimeLeftFull(r, u) == RATE_LIMIT_SECONDS

\* get_rate_limit_time_left: max(0, ttl)
GetRateLimitTimeLeft(r, u) == IF RedisTtl(r, u) > 0 THEN RedisTtl(r, u) ELSE 0

\* a call that leaves the TTL to the default of set_rate_limit, seconds=180
SetRateLimitDefault(r, u) == [r EXCEPT ![u] = 3 * RATE_LIMIT_SECONDS]

\* set_rate_limit(user_id, 60)
SetRateLimit(r, u) == [r EXCEPT ![u] = RATE_LIMIT_SECONDS]

\* a comparison that forgets strip()
VerifyNoStrip(text, expected) == Upper(text) = Upper(expected)

\* (message.text or "").strip().upper() == str(captcha_answer).upper()
Verify(text, expected) == Upper(Strip(text)) = Upper(expected)

\* the challenge data the handler works on: the FSM data, or the store record
\* when the FSM data has no answer or no group name
ChallengeData(f, store, u) ==
    IF f[u].data.has /\ f[u].data.answer # <<>> /\ f[u].data.group # ""
    THEN f[u].data
    ELSE GetCaptchaData(store, u)

IsPrivateName(g) == g = "private_c1"

\* a resolution that reads the join_request record for every name
ResolveChatIdRecordOnly(jr, u, g) ==
    IF jr[u][g].ttl > 0 THEN jr[u][g].chat ELSE NoChat

\* the chat id for approve: private_<id>, or the join_request record of the user
ResolveChatId(jr, u, g) ==
    IF IsPrivateName(g) THEN "c1"
    ELSE IF jr[u][g].ttl > 0 THEN jr[u][g].chat
    ELSE NoChat

\* redis.get(captcha_passed:<user>:<chat>) is truthy
CaptchaPassed(p, u, c) == p[u][c] > 0

\* a write of the marker whatever approve returned
MarkPassedAlways(p, u, c, result) == [p EXCEPT ![u][c] = CAPTCHA_PASSED_TTL]

\* a write that drops the marker when approve failed
MarkPassedOrClear(p, u, c, result) ==
    IF result.success THEN [p EXCEPT ![u][c] = CAPTCHA_PASSED_TTL]
    ELSE [p EXCEPT ![u][c] = 0]

\* redis.setex(captcha_passed:<user>:<chat>, 3600, "1") when result["success"]
MarkPassed(p, u, c, result) ==
    IF result.success THEN [p EXCEPT ![u][c] = CAPTCHA_PASSED_TTL] ELSE p

\* attempts >= 3
AttemptsExhausted(n) == n >= MAX_ATTEMPTS

AnswerOut(u, b) == [NoOut EXCEPT !.op = "answer", !.user = u, !.branch = b]

\* the rate limit branch: reply with the time left and return
AnswerCooldown(u) ==
    /\ UNCHANGED <<fsm, captcha, rate, passed, approvedAgo>>
    /\ out' = [AnswerOut(u, "cooldown") EXCEPT !.n = GetRateLimitTimeLeft(rate, u)]

\* no challenge data in the FSM nor in the store
AnswerExpired(u) ==
    \E reply \in BOOLEAN :
    /\ fsm' = IF reply THEN [fsm EXCEPT ![u] = Cleared] ELSE fsm
    /\ UNCHANGED <<captcha, rate, passed, approvedAgo>>
    /\ out' = AnswerOut(u, "expired")

\* attempts >= 3 on entry: two replies around the delete and the rate limit
AnswerTooMany(u) ==
    \E reply1 \in BOOLEAN, reply2 \in BOOLEAN :
    /\ reply1 \/ reply2
    /\ IF reply1
       THEN /\ captcha' = Del(captcha, CaptchaKey(u))
            /\ rate' = SetRateLimit(rate, u)
            /\ fsm' = IF reply2 THEN [fsm EXCEPT ![u] = Cleared] ELSE fsm
            /\ out' = AnswerOut(u, "too_many")
       ELSE /\ UNCHANGED <<captcha, rate, fsm>>
            /\ out' = AnswerOut(u, "aborted")
    /\ UNCHANGED <<passed, approvedAgo>>

\* the answer matches
AnswerVerified(u, d, text) ==
    \E reply \in BOOLEAN :
    LET chat == ResolveChatId(joinReq, u, d.group) IN
    /\ captcha' = Del(captcha, CaptchaKey(u))
    /\ fsm' = IF reply THEN [fsm EXCEPT ![u] = Cleared] ELSE fsm
    /\ rate' = rate
    /\ IF chat # NoChat
       THEN \E resp \in HandlerResponses :
            LET result == ApproveChatJoinRequest(chat, resp) IN
            /\ passed' = MarkPassed(passed, u, chat, result)
            /\ approvedAgo' = IF result.success
                              THEN [approvedAgo EXCEPT ![u][chat] = 0]
                              ELSE approvedAgo
            /\ out' = [AnswerOut(u, "verified") EXCEPT
                          !.chat = chat,
                          !.gw = IF result.success THEN "ok" ELSE "fail",
                          !.exact = (text = d.answer),
                          !.had = CaptchaPassed(passed, u, chat)]
       ELSE /\ UNCHANGED <<passed, approvedAgo>>
            /\ out' = [AnswerOut(u, "verified") EXCEPT !.exact = (text = d.answer)]

\* state.update_data(attempts=attempts)
FsmCounted(f, u, n) == [f EXCEPT ![u].data.attempts = n]

\* an update that counts the attempt and keeps the old captcha_answer
FsmRenewedKeepsAnswer(f, u, n, g) == [f EXCEPT ![u].data.attempts = n]

\* state.update_data(attempts=attempts), then state.update_data(captcha_answer=new)
FsmRenewed(f, u, n, g) == [f EXCEPT ![u].data.attempts = n, ![u].data.answer = g]

\* a wrong answer that exhausts the attempts
AnswerLockout(u, d) ==
    \E reply \in BOOLEAN :
    /\ IF reply
       THEN /\ captcha' = Del(captcha, CaptchaKey(u))
            /\ rate' = SetRateLimit(rate, u)
            /\ fsm' = [fsm EXCEPT ![u] = Cleared]
            /\ out' = AnswerOut(u, "lockout")
       ELSE \* the lockout reply raised: outer except, attempts stay updated
            /\ UNCHANGED <<captcha, rate>>
            /\ fsm' = FsmCounted(fsm, u, d.attempts + 1)
            /\ out' = AnswerOut(u, "aborted")
    /\ UNCHANGED <<passed, approvedAgo>>

\* a wrong answer with attempts left: a new challenge for the same Session
AnswerRetry(u, d) ==
    \E g \in Answers \cup {GenFail}, delivered \in BOOLEAN, errmsg \in BOOLEAN :
    LET n == d.attempts + 1
        counted == FsmCounted(fsm, u, n)
        renewed == FsmRenewed(fsm, u, n, g)
    IN
    /\ (g = GenFail) => delivered
    /\ (g # GenFail /\ delivered) => errmsg
    /\ IF g = GenFail
       THEN /\ captcha' = captcha
            /\ fsm' = IF errmsg THEN [fsm EXCEPT ![u] = Cleared] ELSE counted
            /\ out' = AnswerOut(u, "aborted")
       ELSE /\ captcha' = SaveCaptchaData(captcha, u, g, d.group, n)
            /\ fsm' = IF delivered THEN renewed
                      ELSE IF errmsg THEN [fsm EXCEPT ![u] = Cleared]
                      ELSE renewed
            /\ out' = IF delivered
                      THEN [AnswerOut(u, "retry") EXCEPT !.challenge = "emitted"]
                      ELSE [AnswerOut(u, "aborted") EXCEPT !.challenge = "generated"]
    /\ UNCHANGED <<rate, passed, approvedAgo>>

\* the handler from the attempts check on, with the challenge data d it read
AnswerFrom(u, text, d) ==
    IF d.attempts >= MAX_ATTEMPTS THEN AnswerTooMany(u)
    ELSE IF Verify(text, d.answer) THEN AnswerVerified(u, d, text)
    ELSE IF AttemptsExhausted(d.attempts + 1) THEN AnswerLockout(u, d)
    ELSE AnswerRetry(u, d)

ProcessCaptchaAnswer(u, text) ==
    /\ fsm[u].state = "waiting"
    /\ LET d == ChallengeData(fsm, captcha, u) IN
       IF CheckRateLimit(rate, u) THEN AnswerCooldown(u)
       ELSE IF ~d.has THEN AnswerExpired(u)
       ELSE AnswerFrom(u, text, d)
    /\ UNCHANGED <<joinReq, captchaOn, muteCache, muteDb, now>>

\* a message while the FSM state is not waiting_for_captcha: the filter of the
\* answer handler does not match and the handler is not called
AnswerNotRouted(u, text) ==
    /\ fsm[u].state # "waiting"
    /\ out' = AnswerOut(u, "not_routed")
    /\ UNCHANGED <<fsm, captcha, rate, passed, joinReq, captchaOn, muteCache, muteDb,
                   approvedAgo, now>>

(***************************************************************************)
(* Post-approval moderation: the mute of manually approved members         *)
(***************************************************************************)
Statuses == {"left", "kicked", "member", "restricted"}

\* get_mute_new_members_status: the cached flag, else the database row
GetMuteNewMembersStatus(cache, db, c, dbOk) ==
    IF cache[c] # "none" THEN cache[c] = "1"
    ELSE IF ~dbOk THEN FALSE
    ELSE db[c] = "1"

\* a cache fill that writes the default "0" whatever the database row says
MuteCacheAfterGetDefaultOff(cache, db, c, dbOk) ==
    IF cache[c] # "none" \/ ~dbOk THEN cache
    ELSE [cache EXCEPT ![c] = "0"]

\* the cache after get_mute_new_members_status: filled from the database
MuteCacheAfterGet(cache, db, c, dbOk) ==
    IF cache[c] # "none" \/ ~dbOk THEN cache
    ELSE [cache EXCEPT ![c] = IF db[c] = "1" THEN "1" ELSE "0"]

\* the status test of mute_manually_approved_member
IsJoinTransition(old, new) == old \in {"left", "kicked"} /\ new = "member"

\* a decision that does not look at the status change
ShouldRestrictAnyChange(old, new, enabled, marker) == enabled /\ ~marker

\* a decision that does not look at the captcha_passed flag
ShouldRestrictIgnoringMarker(old, new, enabled, marker) ==
    IsJoinTransition(old, new) /\ enabled

\* whether mute_manually_approved_member calls restrict_chat_member
ShouldRestrict(old, new, enabled, marker) ==
    IsJoinTransition(old, new) /\ enabled /\ ~marker

\* timedelta(days=366 * 10)
RESTRICT_DAYS == 366 * 10

\* an ending that returns True after the restrict call whether it raised or not
MuteEndingRestrictUnchecked(call, restrictOk, trackOk) ==
    [days |-> IF call THEN RESTRICT_DAYS ELSE 0,
     flag |-> IF call /\ restrictOk
              THEN IF trackOk THEN "flagged" ELSE "flag_failed"
              ELSE "none",
     ret |-> call]

\* an ending in which a failed flagging makes the decision return False
MuteEndingFlagDecides(call, restrictOk, trackOk) ==
    [days |-> IF call THEN RESTRICT_DAYS ELSE 0,
     flag |-> IF call /\ restrictOk
              THEN IF trackOk THEN "flagged" ELSE "flag_failed"
              ELSE "none",
     ret |-> call /\ restrictOk /\ trackOk]

\* from the restrict call on: until_date of the call, then one call of
\* track_captcha_failure(violation_type="manual_mute_by_admin") inside its own
\* try, then return True; a restrict call that raises ends in return False
MuteEnding(call, restrictOk, trackOk) ==
    [days |-> IF call THEN RESTRICT_DAYS ELSE 0,
     flag |-> IF call /\ restrictOk
              THEN IF trackOk THEN "flagged" ELSE "flag_failed"
              ELSE "none",
     ret |-> call /\ restrictOk]

MuteManuallyApprovedMember(u, c, old, new, dbOk, restrictOk) ==
    LET enabled == GetMuteNewMembersStatus(muteCache, muteDb, c, dbOk)
        call == ShouldRestrict(old, new, enabled, CaptchaPassed(passed, u, c))
    IN
    /\ (muteCache[c] # "none" \/ ~IsJoinTransition(old, new)) => dbOk
    /\ ~call => restrictOk
    /\ muteCache' = IF IsJoinTransition(old, new)
                    THEN MuteCacheAfterGet(muteCache, muteDb, c, dbOk)
                    ELSE muteCache
    /\ \E trackOk \in BOOLEAN :
       LET ending == MuteEnding(call, restrictOk, trackOk) IN
       /\ ~(call /\ restrictOk) => trackOk
       /\ out' = [NoOut EXCEPT !.op = "mute", !.user = u, !.chat = c,
                               !.restrict = call, !.ret = ending.ret,
                               !.days = ending.days, !.flag = ending.flag,
                               !.n = IF out.op = "mute" /\ out.user = u /\ out.chat = c
                                        /\ out.restrict = call /\ out.n < MaxDeliveries
                                     THEN out.n + 1
                                     ELSE IF out.op = "mute" /\ out.user = u
                                             /\ out.chat = c /\ out.restrict = call
                                     THEN out.n ELSE 1]
    /\ UNCHANGED <<fsm, captcha, rate, passed, joinReq, captchaOn, muteDb,
                   approvedAgo, now>>

\* the store reads of the decision that can raise: redis.get of the setting
\* inside get_mute_new_members_status, redis.get of captcha_passed
StoreReads == {"setting", "marker"}

\* mute_manually_approved_member when a Redis read raises: the setting read
\* ends in the except of get_mute_new_members_status (False), the marker read
\* in the outer except (return False)
MuteStoreFails(u, c, old, new, at) ==
    /\ IsJoinTransition(old, new)
    /\ at = "marker" => GetMuteNewMembersStatus(muteCache, muteDb, c, TRUE)
    /\ muteCache' = IF at = "marker"
                    THEN MuteCacheAfterGet(muteCache, muteDb, c, TRUE)
                    ELSE muteCache
    /\ out' = [NoOut EXCEPT !.op = "mute_store_failed", !.user = u, !.chat = c,
                            !.branch = IF at = "marker" THEN "marker_failed"
                                       ELSE "setting_failed",
                            !.restrict = FALSE, !.ret = FALSE, !.n = 1]
    /\ UNCHANGED <<fsm, captcha, rate, passed, joinReq, captchaOn, muteDb,
                   approvedAgo, now>>

\* the status changes mute_handler and recheck_approved_member filter on
UnapprovedEvents ==
    {<<old, "restricted">> : old \in Statuses} \cup {<<"restricted", "member">>}

\* an ending that restricts when the setting is on
UnapprovedEndingRestricts(enabled) == [restrict |-> enabled, ret |-> enabled]

\* mute_unapproved_member after the setting is read: log lines, return False
UnapprovedEnding(enabled) == [restrict |-> FALSE, ret |-> FALSE]

\* mute_unapproved_member: the handlers of the changes to restricted and from
\* restricted to member
MuteUnapprovedMember(u, c, old, new, dbOk) ==
    LET enabled == GetMuteNewMembersStatus(muteCache, muteDb, c, dbOk)
        ending == UnapprovedEnding(enabled)
    IN
    /\ muteCache[c] # "none" => dbOk
    /\ muteCache' = MuteCacheAfterGet(muteCache, muteDb, c, dbOk)
    /\ out' = [NoOut EXCEPT !.op = "mute_unapproved", !.user = u, !.chat = c,
                            !.branch = IF enabled THEN "logged" ELSE "disabled",
                            !.restrict = ending.restrict, !.ret = ending.ret]
    /\ UNCHANGED <<fsm, captcha, rate, passed, joinReq, captchaOn, muteDb,
                   approvedAgo, now>>

\* set_mute_new_members_status: Redis first, then the database
SetMuteNewMembersStatus(c, enabled) ==
    \E dbOk \in BOOLEAN :
    LET v == IF enabled THEN "1" ELSE "0" IN
    /\ muteCache' = [muteCache EXCEPT ![c] = v]
    /\ muteDb' = IF dbOk THEN [muteDb EXCEPT ![c] = v] ELSE muteDb
    /\ out' = [NoOut EXCEPT !.op = "setmute", !.chat = c, !.ret = dbOk]
    /\ UNCHANGED <<fsm, captcha, rate, passed, joinReq, captchaOn, approvedAgo, now>>

(***************************************************************************)
(* The bot: every inbound event is one handler run                         *)
(***************************************************************************)
Payloads == GroupNames \cup {BadPayload}

\* the admission pipeline of a user who has the deep link
Next ==
    \/ \E u \in Users, p \in Payloads :
          ProcessVisualCaptchaDeepLink(u, p) /\ UNCHANGED unfollowed
    \/ \E u \in Users, t \in Texts : ProcessCaptchaAnswer(u, t) /\ UNCHANGED unfollowed
    \/ \E u \in Users, t \in Texts : AnswerNotRouted(u, t) /\ UNCHANGED unfollowed
    \/ \E d \in TickSteps : Tick(d) /\ UNCHANGED aux

Spec == Init /\ [][Next]_vars

\* the same pipeline with the clock read at steps inside a cooldown
CooldownSteps == {1, 35}

NextCooldown ==
    \/ \E u \in Users, p \in Payloads :
          ProcessVisualCaptchaDeepLink(u, p) /\ UNCHANGED unfollowed
    \/ \E u \in Users, t \in Texts : ProcessCaptchaAnswer(u, t) /\ UNCHANGED unfollowed
    \/ \E d \in CooldownSteps : Tick(d) /\ UNCHANGED aux

SpecCooldown == Init /\ [][NextCooldown]_vars

\* the pipeline with a record of whether the user was locked out: run.locked
\* is set by the handler run that deletes the Session and writes the cooldown
InitRecover ==
    /\ fsm = [u \in Users |-> Cleared]
    /\ captcha = {}
    /\ rate = [u \in Users |-> 0]
    /\ passed = [u \in Users |-> [c \in Communities |-> 0]]
    /\ joinReq = JoinedAtStart({c \in Communities : IsPublic(c)})
    /\ captchaOn = [c \in Communities |-> TRUE]
    /\ muteCache = [c \in Communities |-> "none"]
    /\ muteDb = [c \in Communities |-> "none"]
    /\ approvedAgo = [u \in Users |-> [c \in Communities |-> -1]]
    /\ now = 0
    /\ out = NoOut
    /\ timers = {}
    /\ gate = NoGate
    /\ run = [locked |-> FALSE]
    /\ tasks = NoTasks

NotesLockout ==
    /\ run' = [locked |-> run.locked \/ out'.branch \in {"lockout", "too_many"}]
    /\ UNCHANGED <<timers, gate, tasks>>

NextRecover ==
    \/ \E u \in Users, c \in Communities :
          ProcessVisualCaptchaDeepLink(u, GroupIdOf(c)) /\ NotesLockout
    \/ \E u \in Users, t \in Texts : ProcessCaptchaAnswer(u, t) /\ NotesLockout
    \/ \E d \in TickSteps : Tick(d) /\ UNCHANGED aux

SpecRecover == InitRecover /\ [][NextRecover]_vars

\* moderation: the markers of the users who passed just before the run starts,
\* any persisted setting, an empty cache
InitMute ==
    /\ fsm = [u \in Users |-> Cleared]
    /\ captcha = {}
    /\ rate = [u \in Users |-> 0]
    /\ passed \in [Users -> [Communities -> {0, CAPTCHA_PASSED_TTL}]]
    /\ joinReq = JoinedAtStart({})
    /\ captchaOn = [c \in Communities |-> TRUE]
    /\ muteCache = [c \in Communities |-> "none"]
    /\ muteDb \in [Communities -> {"none", "0", "1"}]
    /\ approvedAgo = [u \in Users |-> [c \in Communities |->
                         IF passed[u][c] > 0 THEN 0 ELSE -1]]
    /\ now = 0
    /\ out = NoOut
    /\ timers = {}
    /\ gate = NoGate
    /\ run = NoRun
    /\ tasks = NoTasks

NextMute ==
    \/ \E u \in Users, c \in Communities, old \in Statuses, new \in Statuses,
          dbOk \in BOOLEAN, restrictOk \in BOOLEAN :
          MuteManuallyApprovedMember(u, c, old, new, dbOk, restrictOk)
            /\ UNCHANGED unfollowed
    \/ \E c \in Communities, e \in BOOLEAN :
          SetMuteNewMembersStatus(c, e) /\ UNCHANGED unfollowed
    \/ \E d \in TickSteps : Tick(d) /\ UNCHANGED aux

SpecMute == InitMute /\ [][NextMute]_vars

\* every chat_member handler of the moderation router, the store reads that
\* raise included, on the status changes of a join, a restriction, a release
\* and a leave
ModerationEvents ==
    {<<"left", "member">>, <<"kicked", "member">>, <<"restricted", "member">>,
     <<"member", "restricted">>, <<"member", "left">>}

NextModeration ==
    \/ \E u \in Users, c \in Communities, e \in ModerationEvents,
          dbOk \in BOOLEAN, restrictOk \in BOOLEAN :
          MuteManuallyApprovedMember(u, c, e[1], e[2], dbOk, restrictOk)
            /\ UNCHANGED unfollowed
    \/ \E u \in Users, c \in Communities, e \in ModerationEvents, at \in StoreReads :
          MuteStoreFails(u, c, e[1], e[2], at) /\ UNCHANGED unfollowed
    \/ \E u \in Users, c \in Communities, e \in UnapprovedEvents, dbOk \in BOOLEAN :
          MuteUnapprovedMember(u, c, e[1], e[2], dbOk) /\ UNCHANGED unfollowed
    \/ \E c \in Communities, e \in BOOLEAN :
          SetMuteNewMembersStatus(c, e) /\ UNCHANGED unfollowed
    \/ \E d \in TickSteps : Tick(d) /\ UNCHANGED aux

SpecModeration == InitMute /\ [][NextModeration]_vars

(***************************************************************************)
(* The gateway on its own: one call of approve_chat_join_request           *)
(***************************************************************************)
\* a call for any community against any pattern of platform responses
InitGateway ==
    /\ fsm = [u \in Users |-> Cleared]
    /\ captcha = {}
    /\ rate = [u \in Users |-> 0]
    /\ passed = [u \in Users |-> [c \in Communities |-> 0]]
    /\ joinReq = JoinedAtStart({})
    /\ captchaOn = [c \in Communities |-> TRUE]
    /\ muteCache = [c \in Communities |-> "none"]
    /\ muteDb = [c \in Communities |-> "none"]
    /\ approvedAgo = [u \in Users |-> [c \in Communities |-> -1]]
    /\ now = 0
    /\ out = NoOut
    /\ timers = {}
    /\ gate \in {[pc |-> "called", chat |-> c, resp |-> r] :
                    c \in Communities, r \in GatewayResponses}
    /\ run = NoRun
    /\ tasks = NoTasks

\* the call returns its result dictionary
GatewayReturns ==
    /\ gate.pc = "called"
    /\ gate' = [pc |-> "returned", chat |-> gate.chat, resp |-> gate.resp,
                result |-> ApproveChatJoinRequest(gate.chat, gate.resp)]
    /\ UNCHANGED <<fsm, captcha, rate, passed, joinReq, captchaOn, muteCache, muteDb,
                   approvedAgo, now, out, timers, run, tasks>>

NextGateway == GatewayReturns

SpecGateway == InitGateway /\ [][NextGateway]_vars

(***************************************************************************)
(* One admission from the join request to the correct answer, every step   *)
(* completing: the prompt is sent, the challenge is delivered, wrong       *)
(* answers get a new challenge, the Session is alive, approve succeeds     *)
(***************************************************************************)
\* run.step: 0 before the join request, 1 after it, 2 after /start, 3 after the
\* correct answer; chat: the community of the join request; wrongs: the wrong
\* answers so far; gwcalls: the handler runs that called the gateway; gen: the
\* expected answer save_captcha_data stored last
InitRun ==
    /\ fsm = [u \in Users |-> Cleared]
    /\ captcha = {}
    /\ rate = [u \in Users |-> 0]
    /\ passed = [u \in Users |-> [c \in Communities |-> 0]]
    /\ joinReq = JoinedAtStart({})
    /\ captchaOn = [c \in Communities |-> TRUE]
    /\ muteCache = [c \in Communities |-> "none"]
    /\ muteDb = [c \in Communities |-> "none"]
    /\ approvedAgo = [u \in Users |-> [c \in Communities |-> -1]]
    /\ now = 0
    /\ out = NoOut
    /\ timers = {}
    /\ gate = NoGate
    /\ run = [step |-> 0, user |-> "none", chat |-> NoChat, wrongs |-> 0,
              gwcalls |-> 0, gen |-> GenFail]
    /\ tasks = NoTasks

offRun == <<timers, gate, tasks>>

RunJoin(u, c) ==
    /\ run.step = 0
    /\ HandleJoinRequest(u, c)
    /\ out'.branch = "prompted"
    /\ run' = [run EXCEPT !.step = 1, !.user = u, !.chat = c]
    /\ UNCHANGED offRun

RunStart ==
    /\ run.step = 1
    /\ ProcessVisualCaptchaDeepLink(run.user, GroupIdOf(run.chat))
    /\ out'.branch = "issued"
    /\ run' = [run EXCEPT !.step = 2, !.gen = GetCaptchaData(captcha', run.user).answer]
    /\ UNCHANGED offRun

RunWrongAnswer(t) ==
    /\ run.step = 2
    /\ ProcessCaptchaAnswer(run.user, t)
    /\ out'.branch = "retry"
    /\ run' = [run EXCEPT !.wrongs = @ + 1,
                          !.gen = GetCaptchaData(captcha', run.user).answer]
    /\ UNCHANGED offRun

RunCorrectAnswer(t) ==
    /\ run.step = 2
    /\ ProcessCaptchaAnswer(run.user, t)
    /\ out'.branch = "verified" /\ out'.gw # "fail"
    /\ run' = [run EXCEPT !.step = 3,
                          !.gwcalls = IF out'.gw = "none" THEN @ ELSE @ + 1]
    /\ UNCHANGED offRun

\* time passes; after /start only as long as the Session stays alive
RunTick(d) ==
    /\ Tick(d)
    /\ run.step = 2 => SessionsOf(captcha', run.user) # {}
    /\ UNCHANGED <<run, gate, tasks>>

NextRun ==
    \/ \E u \in Users, c \in Communities : RunJoin(u, c)
    \/ RunStart
    \/ \E t \in Texts : RunWrongAnswer(t)
    \/ \E t \in Texts : RunCorrectAnswer(t)
    \/ \E d \in TickSteps : RunTick(d)

SpecRun == InitRun /\ [][NextRun]_vars

(***************************************************************************)
(* The approval and the member event it causes: the answer handler is      *)
(* suspended in approve_chat_join_request after the platform approved, and *)
(* the chat_member update of the join is handled as a task of its own      *)
(***************************************************************************)
IdleTask == [pc |-> "idle", user |-> "none", chat |-> NoChat,
             resp |-> Resp(TRUE, "ok", "ok", "ok", TRUE, TRUE, TRUE), exact |-> FALSE]

\* an open admission, with any persisted restriction setting
InitRace ==
    /\ fsm = [u \in Users |-> Cleared]
    /\ captcha = {}
    /\ rate = [u \in Users |-> 0]
    /\ passed = [u \in Users |-> [c \in Communities |-> 0]]
    /\ joinReq = JoinedAtStart({c \in Communities : IsPublic(c)})
    /\ captchaOn = [c \in Communities |-> TRUE]
    /\ muteCache = [c \in Communities |-> "none"]
    /\ \E v \in {"none", "0", "1"} : muteDb = [c \in Communities |-> v]
    /\ approvedAgo = [u \in Users |-> [c \in Communities |-> -1]]
    /\ now = 0
    /\ out = NoOut
    /\ timers = {}
    /\ gate = NoGate
    /\ run = NoRun
    /\ tasks = IdleTask

\* process_captcha_answer with a correct answer, up to the point inside
\* approve_chat_join_request where the platform has approved the request
AnswerApproved(u, text) ==
    /\ tasks.pc = "idle"
    /\ fsm[u].state = "waiting"
    /\ ~CheckRateLimit(rate, u)
    /\ LET d == ChallengeData(fsm, captcha, u)
           chat == ResolveChatId(joinReq, u, d.group)
       IN
       /\ d.has /\ d.attempts < MAX_ATTEMPTS /\ Verify(text, d.answer)
       /\ chat # NoChat
       /\ \E resp \in HandlerResponses :
             /\ resp.chat /\ ApproveLoop(resp.approve, resp.hints, 0).ok
             /\ tasks' = [pc |-> "approved", user |-> u, chat |-> chat,
                          resp |-> resp, exact |-> (text = d.answer)]
       /\ out' = [AnswerOut(u, "approved") EXCEPT !.chat = chat]
    /\ captcha' = Del(captcha, CaptchaKey(u))
    /\ UNCHANGED <<fsm, rate, passed, joinReq, captchaOn, muteCache, muteDb,
                   approvedAgo, now>>

\* the rest of the handler: approve_chat_join_request returns, the marker is
\* written, the success message is sent and the FSM state is cleared
AnswerResumed ==
    \E reply \in BOOLEAN :
    LET result == ApproveChatJoinRequest(tasks.chat, tasks.resp) IN
    /\ tasks.pc = "approved"
    /\ tasks' = [tasks EXCEPT !.pc = "done"]
    /\ passed' = MarkPassed(passed, tasks.user, tasks.chat, result)
    /\ approvedAgo' = [approvedAgo EXCEPT ![tasks.user][tasks.chat] = 0]
    /\ fsm' = IF reply THEN [fsm EXCEPT ![tasks.user] = Cleared] ELSE fsm
    /\ out' = [AnswerOut(tasks.user, "verified") EXCEPT
                  !.chat = tasks.chat, !.gw = "ok", !.exact = tasks.exact,
                  !.had = CaptchaPassed(passed, tasks.user, tasks.chat)]
    /\ UNCHANGED <<captcha, rate, joinReq, captchaOn, muteCache, muteDb, now>>

\* the chat_member update left -> member of the approved user is handled
MemberJoined(dbOk, restrictOk) ==
    /\ tasks.pc \in {"approved", "done"}
    /\ MuteManuallyApprovedMember(tasks.user, tasks.chat, "left", "member",
                                  dbOk, restrictOk)

NextRace ==
    \/ \E u \in Users, c \in Communities :
          ProcessVisualCaptchaDeepLink(u, GroupIdOf(c)) /\ UNCHANGED unfollowed
    \/ \E u \in Users, t \in Texts :
          AnswerApproved(u, t) /\ UNCHANGED <<timers, gate, run>>
    \/ AnswerResumed /\ UNCHANGED <<timers, gate, run>>
    \/ \E dbOk \in BOOLEAN, restrictOk \in BOOLEAN :
          MemberJoined(dbOk, restrictOk) /\ UNCHANGED unfollowed
    \/ \E d \in TickSteps : Tick(d) /\ UNCHANGED aux

SpecRace == InitRace /\ [][NextRace]_vars

(***************************************************************************)
(* The branch of a correct answer, one store or platform call at a time:   *)
(* redis.delete, the resolution of the chat id, approve_chat_join_request, *)
(* redis.setex of the marker                                               *)
(***************************************************************************)
IdleOrder == [pc |-> "idle", user |-> "none", group |-> "", chat |-> NoChat,
              resp |-> Resp(TRUE, "ok", "ok", "ok", TRUE, TRUE, TRUE)]

InitOrder ==
    /\ fsm = [u \in Users |-> Cleared]
    /\ captcha = {}
    /\ rate = [u \in Users |-> 0]
    /\ passed = [u \in Users |-> [c \in Communities |-> 0]]
    /\ joinReq = JoinedAtStart({c \in Communities : IsPublic(c)})
    /\ captchaOn = [c \in Communities |-> TRUE]
    /\ muteCache = [c \in Communities |-> "none"]
    /\ muteDb = [c \in Communities |-> "none"]
    /\ approvedAgo = [u \in Users |-> [c \in Communities |-> -1]]
    /\ now = 0
    /\ out = NoOut
    /\ timers = {}
    /\ gate = NoGate
    /\ run = NoRun
    /\ tasks = IdleOrder

\* lines 284-334: the text matches and redis.delete(captcha:<user>) is awaited
VerifiedDeletes(u, text) ==
    /\ tasks.pc \in {"idle", "done"}
    /\ fsm[u].state = "waiting"
    /\ ~CheckRateLimit(rate, u)
    /\ LET d == ChallengeData(fsm, captcha, u) IN
       /\ d.has /\ d.attempts < MAX_ATTEMPTS /\ Verify(text, d.answer)
       /\ tasks' = [IdleOrder EXCEPT !.pc = "deleted", !.user = u, !.group = d.group]
    /\ captcha' = Del(captcha, CaptchaKey(u))
    /\ out' = AnswerOut(u, "deleted")
    /\ UNCHANGED <<fsm, rate, passed, joinReq, captchaOn, muteCache, muteDb,
                   approvedAgo, now>>

\* lines 340-362: the chat id is resolved; with one, approve_chat_join_request
\* is called, without one the handler replies and clears the FSM state
VerifiedResolves ==
    \E reply \in BOOLEAN, resp \in HandlerResponses :
    LET chat == ResolveChatId(joinReq, tasks.user, tasks.group) IN
    /\ tasks.pc = "deleted"
    /\ IF chat # NoChat
       THEN /\ tasks' = [tasks EXCEPT !.pc = "called", !.chat = chat, !.resp = resp]
            /\ out' = [AnswerOut(tasks.user, "called") EXCEPT !.chat = chat]
            /\ fsm' = fsm
       ELSE /\ tasks' = [tasks EXCEPT !.pc = "done"]
            /\ out' = AnswerOut(tasks.user, "verified")
            /\ fsm' = IF reply THEN [fsm EXCEPT ![tasks.user] = Cleared] ELSE fsm
    /\ UNCHANGED <<captcha, rate, passed, joinReq, captchaOn, muteCache, muteDb,
                   approvedAgo, now>>

\* lines 362-454: approve_chat_join_request returned; the marker is written when
\* it succeeded, the reply is sent and the FSM state is cleared
VerifiedReturns ==
    \E reply \in BOOLEAN :
    LET result == ApproveChatJoinRequest(tasks.chat, tasks.resp) IN
    /\ tasks.pc = "called"
    /\ tasks' = [tasks EXCEPT !.pc = "done"]
    /\ passed' = MarkPassed(passed, tasks.user, tasks.chat, result)
    /\ approvedAgo' = IF result.success
                      THEN [approvedAgo EXCEPT ![tasks.user][tasks.chat] = 0]
                      ELSE approvedAgo
    /\ fsm' = IF reply THEN [fsm EXCEPT ![tasks.user] = Cleared] ELSE fsm
    /\ out' = [AnswerOut(tasks.user, "verified") EXCEPT
                  !.chat = tasks.chat,
                  !.gw = IF result.success THEN "ok" ELSE "fail",
                  !.had = CaptchaPassed(passed, tasks.user, tasks.chat)]
    /\ UNCHANGED <<captcha, rate, joinReq, captchaOn, muteCache, muteDb, now>>

NextOrder ==
    \/ \E u \in Users, p \in GroupNames :
          ProcessVisualCaptchaDeepLink(u, p) /\ UNCHANGED unfollowed
    \/ \E u \in Users, t \in Texts :
          VerifiedDeletes(u, t) /\ UNCHANGED <<timers, gate, run>>
    \/ VerifiedResolves /\ UNCHANGED <<timers, gate, run>>
    \/ VerifiedReturns /\ UNCHANGED <<timers, gate, run>>
    \/ \E d \in TickSteps : Tick(d) /\ UNCHANGED aux

SpecOrder == InitOrder /\ [][NextOrder]_vars

(***************************************************************************)
(* Answer events of one user handled as concurrent tasks: a task reads the *)
(* challenge data, is suspended at an await, and finishes later with what  *)
(* it read                                                                 *)
(***************************************************************************)
\* the answer tasks that can be in flight at a time
Slots == {1, 2}

\* the count of wrong answers is followed up to this number
MaxWrongs == 4

\* the texts of concurrent answers: the two correct ones and a wrong one
TaskTexts == {<<"A", "B">>, <<"7">>, <<"b">>}

IdleSlot == [pc |-> "idle", user |-> "none", text |-> <<>>, d |-> NoData]

\* run.wrongs: the wrong answers processed since the Session was created;
\* run.clean: none of these handler runs was abandoned on an internal failure
InitConcurrent ==
    /\ fsm = [u \in Users |-> Cleared]
    /\ captcha = {}
    /\ rate = [u \in Users |-> 0]
    /\ passed = [u \in Users |-> [c \in Communities |-> 0]]
    /\ joinReq = JoinedAtStart({c \in Communities : IsPublic(c)})
    /\ captchaOn = [c \in Communities |-> TRUE]
    /\ muteCache = [c \in Communities |-> "none"]
    /\ muteDb = [c \in Communities |-> "none"]
    /\ approvedAgo = [u \in Users |-> [c \in Communities |-> -1]]
    /\ now = 0
    /\ out = NoOut
    /\ timers = {}
    /\ gate = NoGate
    /\ run = [wrongs |-> 0, clean |-> TRUE]
    /\ tasks = [i \in Slots |-> IdleSlot]

\* /start: a Session that is created starts a new count
StartCounted(u, p) ==
    /\ ProcessVisualCaptchaDeepLink(u, p)
    /\ run' = IF out'.branch \in {"issued", "undelivered"}
              THEN [wrongs |-> 0, clean |-> out'.branch = "issued"]
              ELSE run
    /\ UNCHANGED <<timers, gate, tasks>>

\* process_captcha_answer up to the read of the challenge data: the rate limit
\* and the missing data end the handler, else the task goes on with d
TaskReads(i, u, text) ==
    /\ tasks[i].pc = "idle"
    /\ fsm[u].state = "waiting"
    /\ LET d == ChallengeData(fsm, captcha, u) IN
       IF CheckRateLimit(rate, u) THEN AnswerCooldown(u) /\ tasks' = tasks
       ELSE IF ~d.has THEN AnswerExpired(u) /\ tasks' = tasks
       ELSE /\ tasks' = [tasks EXCEPT ![i] =
                            [pc |-> "read", user |-> u, text |-> text, d |-> d]]
            /\ out' = AnswerOut(u, "read")
            /\ UNCHANGED <<fsm, captcha, rate, passed, approvedAgo>>
    /\ UNCHANGED <<joinReq, captchaOn, muteCache, muteDb, now, timers, gate, run>>

\* the text of the task is a wrong answer to the challenge it read
TaskIsWrong(tk) == tk.d.attempts < MAX_ATTEMPTS /\ ~Verify(tk.text, tk.d.answer)

\* the task goes on from the attempts check with the data it read
TaskFinishes(i) ==
    /\ tasks[i].pc = "read"
    /\ AnswerFrom(tasks[i].user, tasks[i].text, tasks[i].d)
    /\ tasks' = [tasks EXCEPT ![i] = IdleSlot]
    /\ run' = [wrongs |-> IF TaskIsWrong(tasks[i]) /\ run.wrongs < MaxWrongs
                          THEN run.wrongs + 1 ELSE run.wrongs,
               clean |-> run.clean /\ out'.branch # "aborted"]
    /\ UNCHANGED <<joinReq, captchaOn, muteCache, muteDb, now, timers, gate>>

NextConcurrent ==
    \/ \E u \in Users, c \in {x \in Communities : IsPublic(x)} :
          StartCounted(u, GroupIdOf(c))
    \/ \E i \in Slots, u \in Users, t \in TaskTexts : TaskReads(i, u, t)
    \/ \E i \in Slots : TaskFinishes(i)

SpecConcurrent == InitConcurrent /\ [][NextConcurrent]_vars

(***************************************************************************)
(* The reminder tasks: a handler that delivers a challenge starts one      *)
(***************************************************************************)
\* asyncio.create_task(schedule_captcha_reminder(...)) after the challenge of
\* the handler run that just ended was delivered, for the group of its Session
RemindersAfter(tms, o, store) ==
    IF o.challenge = "emitted"
    THEN ScheduleReminder(tms, o.user, GetCaptchaData(store, o.user).group)
    ELSE tms

StartWithReminder(u, p) ==
    /\ ProcessVisualCaptchaDeepLink(u, p)
    /\ timers' = RemindersAfter(timers, out', captcha')
    /\ UNCHANGED aux

AnswerWithReminder(u, text) ==
    /\ ProcessCaptchaAnswer(u, text)
    /\ timers' = RemindersAfter(timers, out', captcha')
    /\ UNCHANGED aux

NextReminder ==
    \/ \E u \in Users, c \in Communities : StartWithReminder(u, GroupIdOf(c))
    \/ \E u \in Users, t \in TaskTexts : AnswerWithReminder(u, t)
    \/ \E d \in TickSteps : Tick(d) /\ UNCHANGED aux

SpecReminder == Init /\ [][NextReminder]_vars

(***************************************************************************)
(* generate_visual_captcha, and the way of its answer through the Session  *)
(* record to the comparison of the answer handler                          *)
(***************************************************************************)
\* random.randint(1, 50)
NUMBER_MAX == 50
\* random.randint(1, 20), random.randint(1, 10) of the math kind
MATH_A_MAX == 20
MATH_B_MAX == 10
\* random.randint(1, 10), random.randint(1, 9) drawn again for a product
MUL_A_MAX == 10
MUL_B_MAX == 9

\* chars = "ABCDEFGHJKLMNPQRSTUVWXYZ23456789"
CaptchaChars ==
    {"A", "B", "C", "D", "E", "F", "G", "H", "J", "K", "L", "M", "N", "P", "Q", "R",
     "S", "T", "U", "V", "W", "X", "Y", "Z", "2", "3", "4", "5", "6", "7", "8", "9"}

\* the characters drawn for the inner positions of a text answer
InnerChars == {"A", "9"}

DigitChars == <<"0", "1", "2", "3", "4", "5", "6", "7", "8", "9">>

\* str(n) of an integer
RECURSIVE Decimal(_)
Decimal(n) ==
    IF n < 0 THEN <<"-">> \o Decimal(0 - n)
    ELSE IF n < 10 THEN <<DigitChars[n + 1]>>
    ELSE Decimal(n \div 10) \o <<DigitChars[(n % 10) + 1]>>

\* the outcomes of the random draws of one call: the kind and what it draws
\* (four characters for a text; for a product the operands are the ones drawn
\* again in the branch)
RandomChoices ==
    {[kind |-> "number", n |-> n] : n \in 1..NUMBER_MAX}
    \cup {[kind |-> "text", chars |-> cs] :
            cs \in {<<c1, c2, c3, c4>> : c1 \in CaptchaChars, c2 \in InnerChars,
                                       c3 \in InnerChars, c4 \in CaptchaChars}}
    \cup {[kind |-> "math", op |-> op, a |-> a, b |-> b] :
            op \in {"+", "-"}, a \in 1..MATH_A_MAX, b \in 1..MATH_B_MAX}
    \cup {[kind |-> "math", op |-> "*", a |-> a, b |-> b] :
            a \in 1..MUL_A_MAX, b \in 1..MUL_B_MAX}

\* a math branch that subtracts the operands as drawn
GenerateVisualCaptchaNoSwap(ch) ==
    IF ch.kind = "number"
    THEN [answer |-> Decimal(ch.n), text_to_draw |-> Decimal(ch.n)]
    ELSE IF ch.kind = "text"
    THEN [answer |-> ch.chars, text_to_draw |-> ch.chars]
    ELSE IF ch.op = "+"
    THEN [answer |-> Decimal(ch.a + ch.b), text_to_draw |-> <<ch.a, "+", ch.b>>]
    ELSE IF ch.op = "-"
    THEN [answer |-> Decimal(ch.a - ch.b), text_to_draw |-> <<ch.a, "-", ch.b>>]
    ELSE [answer |-> Decimal(ch.a * ch.b), text_to_draw |-> <<ch.a, "x", ch.b>>]

\* generate_visual_captcha for one outcome of its random draws: the answer
\* string and the text drawn on the image
GenerateVisualCaptcha(ch) ==
    IF ch.kind = "number"
    THEN [answer |-> Decimal(ch.n), text_to_draw |-> Decimal(ch.n)]
    ELSE IF ch.kind = "text"
    THEN [answer |-> ch.chars, text_to_draw |-> ch.chars]
    ELSE IF ch.op = "+"
    THEN [answer |-> Decimal(ch.a + ch.b), text_to_draw |-> <<ch.a, "+", ch.b>>]
    ELSE IF ch.op = "-"
    THEN LET hi == IF ch.a < ch.b THEN ch.b ELSE ch.a
             lo == IF ch.a < ch.b THEN ch.a ELSE ch.b
         IN [answer |-> Decimal(hi - lo), text_to_draw |-> <<hi, "-", lo>>]
    ELSE [answer |-> Decimal(ch.a * ch.b), text_to_draw |-> <<ch.a, "x", ch.b>>]

\* group names as the characters after deep_link_: empty, a username, and a
\* typed payload with a colon
GroupTexts == {<<>>, <<"c", "2">>, <<"x", ":", "5">>}

\* a record that is written with the group name first
RecordTextGroupFirst(a, g, n) == g \o <<":">> \o a \o <<":">> \o Decimal(n)

\* save_captcha_data: the value f"{captcha_answer}:{group_name}:{attempts}"
RecordText(a, g, n) == a \o <<":">> \o g \o <<":">> \o Decimal(n)

\* raw.split(":")
RECURSIVE Split(_)
Split(raw) ==
    IF \A i \in 1..Len(raw) : raw[i] # ":"
    THEN <<raw>>
    ELSE LET k == CHOOSE i \in 1..Len(raw) :
                      raw[i] = ":" /\ \A j \in 1..(i - 1) : raw[j] # ":"
         IN <<SubSeq(raw, 1, k - 1)>> \o Split(SubSeq(raw, k + 1, Len(raw)))

\* int(parts[2]) succeeds
IsInt(t) == t # <<>> /\ \A i \in 1..Len(t) : \E k \in 1..10 : DigitChars[k] = t[i]

\* get_captcha_data on a stored value: None for fewer than three parts, an
\* exception when the third part is no integer, else the first two parts
ParseRecord(raw) ==
    LET parts == Split(raw) IN
    IF Len(parts) < 3 THEN [ok |-> FALSE, raised |-> FALSE, answer |-> <<>>, group |-> <<>>]
    ELSE IF ~IsInt(parts[3])
    THEN [ok |-> FALSE, raised |-> TRUE, answer |-> <<>>, group |-> <<>>]
    ELSE [ok |-> TRUE, raised |-> FALSE, answer |-> parts[1], group |-> parts[2]]

\* the answer the handler compares with: the FSM copy, or the parsed record
\* when the FSM copy has no answer or no group name
ExpectedAnswer(fsmAnswer, fsmGroup, raw) ==
    IF fsmAnswer # <<>> /\ fsmGroup # <<>>
    THEN [ok |-> TRUE, answer |-> fsmAnswer]
    ELSE LET rec == ParseRecord(raw) IN [ok |-> rec.ok, answer |-> rec.answer]

\* run.step: 0 before generate_visual_captcha, 1 after it, 2 after /start stored
\* the answer, 3 after the user sent the answer string back
InitGenerate ==
    /\ fsm = [u \in Users |-> Cleared]
    /\ captcha = {}
    /\ rate = [u \in Users |-> 0]
    /\ passed = [u \in Users |-> [c \in Communities |-> 0]]
    /\ joinReq = JoinedAtStart({})
    /\ captchaOn = [c \in Communities |-> TRUE]
    /\ muteCache = [c \in Communities |-> "none"]
    /\ muteDb = [c \in Communities |-> "none"]
    /\ approvedAgo = [u \in Users |-> [c \in Communities |-> -1]]
    /\ now = 0
    /\ out = NoOut
    /\ timers = {}
    /\ gate = NoGate
    /\ \E ch \in RandomChoices, g \in GroupTexts :
          run = [step |-> 0, choice |-> ch, group |-> g, answer |-> <<>>,
                 text_to_draw |-> <<>>, raw |-> <<>>, accepted |-> FALSE]
    /\ tasks = NoTasks

quiet == <<fsm, captcha, rate, passed, joinReq, captchaOn, muteCache, muteDb,
           approvedAgo, now, out, timers, gate, tasks>>

Generates ==
    /\ run.step = 0
    /\ LET c == GenerateVisualCaptcha(run.choice) IN
       run' = [run EXCEPT !.step = 1, !.answer = c.answer,
                          !.text_to_draw = c.text_to_draw]
    /\ UNCHANGED quiet

Stores ==
    /\ run.step = 1
    /\ run' = [run EXCEPT !.step = 2, !.raw = RecordText(run.answer, run.group, 0)]
    /\ UNCHANGED quiet

AnswersExactly ==
    /\ run.step = 2
    /\ LET d == ExpectedAnswer(run.answer, run.group, run.raw) IN
       run' = [run EXCEPT !.step = 3,
                          !.accepted = d.ok /\ Verify(run.answer, d.answer)]
    /\ UNCHANGED quiet

NextGenerate == Generates \/ Stores \/ AnswersExactly

SpecGenerate == InitGenerate /\ [][NextGenerate]_vars

(***************************************************************************)
(* The entry token: the group id handle_join_request puts behind           *)
(* "deep_link_", what /start decodes from the payload, and the chat id the *)
(* answer handler resolves from it. Strings are sequences of characters    *)
(***************************************************************************)
DeepLinkPrefix == <<"d", "e", "e", "p", "_", "l", "i", "n", "k", "_">>
PrivatePrefix == <<"p", "r", "i", "v", "a", "t", "e", "_">>

\* the chats that send join requests: a private one, and public ones by username
TokenChats ==
    { [id |-> -7, username |-> <<>>],
      [id |-> -8, username |-> <<"f", "a", "n", "s">>],
      [id |-> -9, username |-> DeepLinkPrefix \o <<"f", "a", "n", "s">>],
      [id |-> -5, username |-> PrivatePrefix \o <<"7">>] }

\* no chat id: None
NoChatId == 0

\* str.startswith
StartsWith(s, pre) == Len(s) >= Len(pre) /\ SubSeq(s, 1, Len(pre)) = pre

\* str.replace(pat, ""): every occurrence, left to right
RECURSIVE RemoveAll(_, _)
RemoveAll(s, pat) ==
    IF Len(s) < Len(pat) THEN s
    ELSE IF StartsWith(s, pat) THEN RemoveAll(SubSeq(s, Len(pat) + 1, Len(s)), pat)
    ELSE <<Head(s)>> \o RemoveAll(Tail(s), pat)

\* the value of a string of digits
RECURSIVE DigitsValue(_)
DigitsValue(t) ==
    IF t = <<>> THEN 0
    ELSE DigitsValue(SubSeq(t, 1, Len(t) - 1)) * 10
         + (CHOOSE k \in 0..9 : DigitChars[k + 1] = t[Len(t)])

\* int(t) does not raise ValueError: digits after an optional minus sign
ParsesAsInt(t) == IsInt(t) \/ (t # <<>> /\ Head(t) = "-" /\ IsInt(Tail(t)))

\* int(t)
IntOf(t) == IF Head(t) = "-" THEN 0 - DigitsValue(Tail(t)) ELSE DigitsValue(t)

\* group_id = chat.username or f"private_{chat.id}"
GroupIdFor(chat) ==
    IF chat.username # <<>> THEN chat.username ELSE PrivatePrefix \o Decimal(chat.id)

\* create_start_link(bot, f"deep_link_{group_id}"): the payload of the link
DeepLinkPayload(group_id) == DeepLinkPrefix \o group_id

\* group_name = deep_link_args.replace("deep_link_", "")
GroupNameOf(payload) == RemoveAll(payload, DeepLinkPrefix)

\* redis.get(join_request:<user>:<group_name>) in a store of [group, value]
JoinRecord(store, g) == {r \in store : r.group = g}

\* save_join_request for the one user: setex overwrites the key
SaveJoinRecord(store, chat_id, g) ==
    {r \in store : r.group # g} \cup {[group |-> g, value |-> Decimal(chat_id)]}

\* lines 340-360: the chat id approve is called with, NoChatId when none is
\* found or int() raises
ResolveFromName(store, g) ==
    IF StartsWith(g, PrivatePrefix)
    THEN IF ParsesAsInt(RemoveAll(g, PrivatePrefix))
         THEN IntOf(RemoveAll(g, PrivatePrefix)) ELSE NoChatId
    ELSE IF g # <<>> /\ Head(g) = "-" /\ IsInt(Tail(g)) THEN IntOf(g)
    ELSE IF JoinRecord(store, g) # {}
         THEN LET v == (CHOOSE r \in JoinRecord(store, g) : TRUE).value IN
              IF ParsesAsInt(v) THEN IntOf(v) ELSE NoChatId
    ELSE NoChatId

\* run.links: the deep links sent, each with the chat of its join request;
\* run.session: the chat of the link /start was opened with and the decoded
\* group name; run.approve: the chat ids (origin, resolved) of the last correct
\* answer; tasks: the join_request records of the user
NoSession == [origin |-> NoChatId, group |-> <<>>]
NoApprove == [origin |-> NoChatId, chat |-> NoChatId]

\* what the token pipeline does not look at
untouched == <<fsm, captcha, rate, passed, joinReq, captchaOn, muteCache, muteDb,
               approvedAgo, now, out, timers, gate>>

InitToken ==
    /\ fsm = [u \in Users |-> Cleared]
    /\ captcha = {}
    /\ rate = [u \in Users |-> 0]
    /\ passed = [u \in Users |-> [c \in Communities |-> 0]]
    /\ joinReq = JoinedAtStart({})
    /\ captchaOn = [c \in Communities |-> TRUE]
    /\ muteCache = [c \in Communities |-> "none"]
    /\ muteDb = [c \in Communities |-> "none"]
    /\ approvedAgo = [u \in Users |-> [c \in Communities |-> -1]]
    /\ now = 0
    /\ out = NoOut
    /\ timers = {}
    /\ gate = NoGate
    /\ run = [links |-> {}, session |-> NoSession, approve |-> NoApprove]
    /\ tasks = {}

\* handle_join_request of a chat with the captcha on: the record is stored and
\* the link is sent
TokenJoin(chat) ==
    /\ tasks' = SaveJoinRecord(tasks, chat.id, GroupIdFor(chat))
    /\ run' = [run EXCEPT !.links = @ \cup
                  {[origin |-> chat.id, payload |-> DeepLinkPayload(GroupIdFor(chat))]},
                          !.approve = NoApprove]
    /\ UNCHANGED untouched

\* /start with the payload of one of the links: the Session gets the decoded name
TokenStart(link) ==
    /\ link \in run.links
    /\ StartsWith(link.payload, DeepLinkPrefix)
    /\ run' = [run EXCEPT !.session = [origin |-> link.origin,
                                        group |-> GroupNameOf(link.payload)],
                          !.approve = NoApprove]
    /\ UNCHANGED <<untouched, tasks>>

\* the correct answer: the Session is deleted and the chat id resolved
TokenAnswer ==
    /\ run.session # NoSession
    /\ run' = [run EXCEPT !.session = NoSession,
                          !.approve = [origin |-> run.session.origin,
                                       chat |-> ResolveFromName(tasks, run.session.group)]]
    /\ UNCHANGED <<untouched, tasks>>

\* the hour of a join_request record is over
TokenExpire(r) ==
    /\ r \in tasks
    /\ tasks' = tasks \ {r}
    /\ run' = [run EXCEPT !.approve = NoApprove]
    /\ UNCHANGED untouched

NextToken ==
    \/ \E chat \in TokenChats : TokenJoin(chat)
    \/ \E link \in run.links : TokenStart(link)
    \/ TokenAnswer
    \/ \E r \in tasks : TokenExpire(r)

SpecToken == InitToken /\ [][NextToken]_vars

(***************************************************************************)
(* middleware/access_control.py: AccessControlMiddleware                   *)
(***************************************************************************)
ALLOWED_USER_ID == 619924982

\* bot_info.id, the id of the bot itself
BotId == 77

\* a user who is neither the allowed user nor the bot
StrangerId == 5

\* user_id = None: no user could be read from the event
NoUserId == -1

\* the events handed to the middleware: kind is the type of the event, user the
\* id in from_user, subject the id in new_chat_member.user (member events),
\* meOk whether bot.me() answers, replyOk whether the refusal can be sent
AccessEvents ==
    [kind : {"message", "callback"}, user : {ALLOWED_USER_ID, StrangerId},
     subject : {NoUserId}, meOk : {TRUE}, replyOk : BOOLEAN]
    \cup
    [kind : {"member"}, user : {ALLOWED_USER_ID, StrangerId},
     subject : {BotId, StrangerId}, meOk : BOOLEAN, replyOk : {TRUE}]
    \cup
    [kind : {"join_request"}, user : {ALLOWED_USER_ID, StrangerId},
     subject : {NoUserId}, meOk : {TRUE}, replyOk : {TRUE}]

\* the isinstance chain: from_user.id of a Message, CallbackQuery or
\* ChatMemberUpdated, None for every other event
UserIdOf(e) ==
    IF e.kind \in {"message", "callback", "member"} THEN e.user ELSE NoUserId

\* a middleware that lets every member-state change through
AccessControlMembersPass(enabled, e) ==
    IF UserIdOf(e) = NoUserId \/ ~enabled \/ e.kind = "member" THEN "invoked"
    ELSE IF UserIdOf(e) # ALLOWED_USER_ID THEN "blocked"
    ELSE "invoked"

\* AccessControlMiddleware.__call__: "invoked" when the wrapped handler is
\* awaited, "blocked" when the middleware returns without it, "raised" when
\* the refusal reply raises
AccessControl(enabled, e) ==
    IF UserIdOf(e) = NoUserId THEN "invoked"
    ELSE IF ~enabled THEN "invoked"
    ELSE IF e.kind = "member" /\ e.meOk /\ e.subject = BotId THEN "invoked"
    ELSE IF UserIdOf(e) # ALLOWED_USER_ID
         THEN IF e.kind \in {"message", "callback"} /\ ~e.replyOk
              THEN "raised" ELSE "blocked"
    ELSE "invoked"

\* ACCESS_CONTROL_ENABLED = True at import, no event delivered yet
InitAccess ==
    /\ fsm = [u \in Users |-> Cleared]
    /\ captcha = {}
    /\ rate = [u \in Users |-> 0]
    /\ passed = [u \in Users |-> [c \in Communities |-> 0]]
    /\ joinReq = JoinedAtStart({})
    /\ captchaOn = [c \in Communities |-> TRUE]
    /\ muteCache = [c \in Communities |-> "none"]
    /\ muteDb = [c \in Communities |-> "none"]
    /\ approvedAgo = [u \in Users |-> [c \in Communities |-> -1]]
    /\ now = 0
    /\ out = NoOut
    /\ timers = {}
    /\ gate = NoGate
    /\ run = [enabled |-> TRUE, log |-> <<>>]
    /\ tasks = {}

\* one event through the middleware; the log keeps the flag it ran under and
\* what became of the wrapped handler
AccessDeliver(e) ==
    /\ Len(run.log) < MaxDeliveries
    /\ run' = [run EXCEPT !.log = Append(@, [event |-> e,
                                             enabled |-> run.enabled,
                                             outcome |-> AccessControl(run.enabled, e)])]
    /\ UNCHANGED quiet

enable_access_control ==
    /\ run' = [run EXCEPT !.enabled = TRUE]
    /\ UNCHANGED quiet

disable_access_control ==
    /\ run' = [run EXCEPT !.enabled = FALSE]
    /\ UNCHANGED quiet

NextAccess ==
    \/ \E e \in AccessEvents : AccessDeliver(e)
    \/ enable_access_control
    \/ disable_access_control

SpecAccess == InitAccess /\ [][NextAccess]_vars

(***************************************************************************)
(* handle_join_request with the order of its effects                       *)
(***************************************************************************)
\* a handler that sends the prompt before it stores the record
JoinEffectsSendFirst(branch) ==
    IF branch = "disabled" THEN <<>>
    ELSE IF branch = "prompted" THEN <<"send_message", "save_join_request">>
    ELSE <<"send_failed", "save_join_request">>

\* what handle_join_request does, in the order of the code: nothing when the
\* captcha is off; save_join_request, then one bot.send_message, whose failure
\* is logged by the except branch
JoinEffects(branch) ==
    IF branch = "disabled" THEN <<>>
    ELSE IF branch = "prompted" THEN <<"save_join_request", "send_message">>
    ELSE <<"save_join_request", "send_failed">>

\* no visual_captcha_enabled key in Redis: the captcha is off everywhere
InitJoin ==
    /\ fsm = [u \in Users |-> Cleared]
    /\ captcha = {}
    /\ rate = [u \in Users |-> 0]
    /\ passed = [u \in Users |-> [c \in Communities |-> 0]]
    /\ joinReq = JoinedAtStart({})
    /\ captchaOn = [c \in Communities |-> FALSE]
    /\ muteCache = [c \in Communities |-> "none"]
    /\ muteDb = [c \in Communities |-> "none"]
    /\ approvedAgo = [u \in Users |-> [c \in Communities |-> -1]]
    /\ now = 0
    /\ out = NoOut
    /\ timers = {}
    /\ gate = NoGate
    /\ run = [effects |-> <<>>]
    /\ tasks = <<>>

\* one join request through the handler, with the effects it had
JoinRequestHandled(u, c) ==
    /\ HandleJoinRequest(u, c)
    /\ run' = [run EXCEPT !.effects = JoinEffects(out'.branch)]
    /\ UNCHANGED offRun

NextJoin ==
    \/ \E u \in Users, c \in Communities : JoinRequestHandled(u, c)
    \/ \E c \in Communities, enabled \in BOOLEAN :
          SetVisualCaptchaStatus(c, enabled) /\ UNCHANGED unfollowed
    \/ \E u \in Users, p \in GroupNames :
          ProcessVisualCaptchaDeepLink(u, p) /\ UNCHANGED unfollowed
    \/ \E d \in TickSteps : Tick(d) /\ UNCHANGED aux

SpecJoin == InitJoin /\ [][NextJoin]_vars

(***************************************************************************)
(* Properties                                                              *)
(***************************************************************************)
\* the same letter in either case
SameLetter(a, b) == a = b \/ {a, b} = {"a", "A"} \/ {a, b} = {"b", "B"}

\* text, without the whitespace around it, is expected letter by letter, the
\* case of the letters aside
TrimmedFoldedEqual(text, expected) ==
    \E i \in 0..Len(text), j \in 0..Len(text) :
        /\ i + j <= Len(text)
        /\ \A k \in 1..i : text[k] \in Whitespace
        /\ \A k \in (Len(text) - j + 1)..Len(text) : text[k] \in Whitespace
        /\ LET core == SubSeq(text, i + 1, Len(text) - j) IN
           /\ core # <<>> => core[1] \notin Whitespace /\ core[Len(core)] \notin Whitespace
           /\ Len(core) = Len(expected)
           /\ \A k \in 1..Len(core) : SameLetter(core[k], expected[k])

\* the answer handler gets as far as comparing the text
ReachesComparison(u) ==
    /\ ~CheckRateLimit(rate, u)
    /\ ChallengeData(fsm, captcha, u).has
    /\ ChallengeData(fsm, captcha, u).attempts < MAX_ATTEMPTS

\* the handler run is the third wrong answer in a row for the live Session of u
ThirdWrongAnswer(u, t) ==
    /\ out'.op = "answer"
    /\ ReachesComparison(u)
    /\ ChallengeData(fsm, captcha, u).attempts = MAX_ATTEMPTS - 1
    /\ \E r \in SessionsOf(captcha, u) : r.attempts = MAX_ATTEMPTS - 1
    /\ ~TrimmedFoldedEqual(t, ChallengeData(fsm, captcha, u).answer)
    /\ ProcessCaptchaAnswer(u, t)

\* C1: after the third consecutive wrong answer for a Session the Session is
\* deleted, a Cooldown Marker with a TTL of 60 seconds exists for the user and no
\* new challenge is generated
LockoutAfterThirdWrongAnswer ==
    [][\A u \in Users, t \in Texts :
          ThirdWrongAnswer(u, t) =>
              /\ SessionsOf(captcha', u) = {}
              /\ rate'[u] = RATE_LIMIT_SECONDS
              /\ out'.challenge = "none"]_vars

\* the step writes a brand-new Session for u from /start
StartsSession(u) == out'.op = "start" /\ out'.user = u /\ out'.challenge # "none"

\* the handler holds a copy of the Session of u in its FSM data
HoldsCopy(f, u) == f[u].state = "waiting" /\ f[u].data.has

AttemptCountInRange ==
    \A u \in Users :
        /\ \A r \in SessionsOf(captcha, u) : r.attempts \in 0..MAX_ATTEMPTS
        /\ HoldsCopy(fsm, u) => fsm[u].data.attempts \in 0..MAX_ATTEMPTS

AttemptCountStep(u) ==
    /\ \A r \in SessionsOf(captcha, u), r2 \in SessionsOf(captcha', u) :
          ~StartsSession(u) => r2.attempts >= r.attempts
    /\ \A r2 \in SessionsOf(captcha', u) :
          (r2.attempts = 0 /\ ~(\E r \in SessionsOf(captcha, u) : r.attempts = 0))
              => StartsSession(u)
    /\ (HoldsCopy(fsm, u) /\ HoldsCopy(fsm', u) /\ ~StartsSession(u)) =>
          fsm'[u].data.attempts >= fsm[u].data.attempts

VerifiedIffTrimmedFoldedEqual ==
    [][\A u \in Users :
          (out'.op = "answer" /\ out'.user = u /\ ReachesComparison(u)) =>
          \A t \in Texts :
          ProcessCaptchaAnswer(u, t) =>
              LET same == TrimmedFoldedEqual(t, ChallengeData(fsm, captcha, u).answer) IN
              /\ (out'.branch = "verified") <=> same
              /\ ~same => out'.branch \in {"retry", "lockout", "aborted"}]_vars

VerifiedAfterNormalisation ==
    out.op = "answer" /\ out.branch = "verified" /\ ~out.exact

\* the restriction setting of c as the handler reads it: the cached flag, else
\* the database row when the read succeeds
RestrictionEnabled(c, dbOk) ==
    \/ muteCache[c] = "1"
    \/ muteCache[c] = "none" /\ dbOk /\ muteDb[c] = "1"

AllFourHold(u, c, old, new, dbOk) ==
    /\ RestrictionEnabled(c, dbOk)
    /\ old \in {"left", "kicked"}
    /\ new = "member"
    /\ passed[u][c] = 0

MarkerBackedByApproval ==
    \A u \in Users, c \in Communities :
        passed[u][c] > 0 =>
            /\ approvedAgo[u][c] >= 0
            /\ approvedAgo[u][c] < CAPTCHA_PASSED_TTL
            /\ passed[u][c] = CAPTCHA_PASSED_TTL - approvedAgo[u][c]

MarkerWriteStep ==
    /\ \A u \in Users, c \in Communities :
          (passed[u][c] = 0 /\ passed'[u][c] > 0) =>
              /\ out'.op = "answer" /\ out'.branch = "verified" /\ out'.gw = "ok"
              /\ out'.user = u /\ out'.chat = c
    /\ (out'.op = "answer" /\ out'.gw \in {"fail", "none"}) => passed' = passed

\* C6: an Approval Marker for (user, community) exists only if the gateway
\* returned success for that pair within the preceding 3600 seconds, after a
\* correct answer of that user; a failed or skipped approval writes no marker
MarkerOnlyAfterGatewaySuccess ==
    []MarkerBackedByApproval /\ [][MarkerWriteStep]_vars

MarkerSomeTimeAfterApproval ==
    \E u \in Users, c \in Communities :
        passed[u][c] > 0 /\ passed[u][c] < CAPTCHA_PASSED_TTL

\* the marker of (u, c) is left alone or loses the seconds the clock advanced
MarkerUntouched(u, c) ==
    \/ passed'[u][c] = passed[u][c]
    \/ out'.op = "tick" /\ \E d \in TickSteps : passed'[u][c] = Age(passed[u][c], d)

\* the answer handler writes the marker of (u, c) again after another success
MarkerRewritten(u, c) ==
    /\ out'.op = "answer" /\ out'.branch = "verified" /\ out'.gw = "ok"
    /\ out'.user = u /\ out'.chat = c
    /\ passed'[u][c] = CAPTCHA_PASSED_TTL

OneSessionPerUser ==
    \A u \in Users : Cardinality(SessionsOf(captcha, u)) <= 1

\* after a /start that generated a challenge the store holds the new Session only
StartReplacesSession(u, p) ==
    (/\ out'.op = "start" /\ out'.challenge # "none"
     /\ ProcessVisualCaptchaDeepLink(u, p)) =>
        \E r \in captcha' :
            /\ SessionsOf(captcha', u) = {r}
            /\ r.answer \in Answers /\ r.group = p /\ r.attempts = 0
            /\ r.ttl = CAPTCHA_TTL
            /\ out'.branch = "issued" =>
                   fsm'[u].data = [has |-> TRUE, answer |-> r.answer, group |-> p,
                                   attempts |-> 0]

\* C8: a user has at most one live Session; a /start deep link that issues a
\* challenge replaces the expected answer, the target community and the
\* attempt_count of the previous one
SessionReplacedByStart ==
    []OneSessionPerUser
    /\ [][\A u \in Users, p \in GroupNames : StartReplacesSession(u, p)]_vars

SessionReplacedWitness ==
    /\ out.op = "start" /\ out.branch = "issued" /\ out.had
    /\ \E r \in SessionsOf(captcha, out.user) : r.attempts = 0 /\ r.ttl = CAPTCHA_TTL

\* C9: while a Cooldown Marker exists for the user, a /start deep link generates
\* no challenge, creates or replaces no Session and emits no artifact
NoChallengeDuringCooldown ==
    [][\A u \in Users, p \in Payloads :
          (/\ CheckRateLimit(rate, u)
           /\ out'.op = "start"
           /\ ProcessVisualCaptchaDeepLink(u, p)) =>
              captcha' = captcha /\ out'.challenge = "none"]_vars

\* C10: an answer submitted after the 300 seconds of the Session have elapsed is
\* not verified against the old expected answer: the handler treats it as "no
\* active challenge", does not call the gateway and writes no Approval Marker
ExpiredSessionNotVerified ==
    [][\A u \in Users, t \in Texts :
          (/\ out.op = "tick" /\ out.branch = "session_expired"
           /\ SessionsOf(captcha, u) = {}
           /\ ProcessCaptchaAnswer(u, t)) =>
              /\ out'.branch = "expired"
              /\ out'.gw = "none"
              /\ passed' = passed]_vars

\* the last handler was an answer of user u that deleted the Session
SessionJustDeleted(u) ==
    /\ out.op = "answer" /\ out.user = u
    /\ out.branch \in {"verified", "lockout", "too_many"}

\* C11: after an answer deleted the Session (a correct answer or the exhaustion
\* of the attempts), the next answer event of the same user, with no /start in
\* between, verifies nothing, does not invoke the gateway, and creates no
\* Session and no Approval Marker
AnswerAfterDeletionIsInert ==
    [][\A u \in Users :
          (SessionJustDeleted(u) /\ out'.op = "answer" /\ out'.user = u) =>
              /\ out'.branch \in {"expired", "cooldown", "not_routed"}
              /\ out'.gw = "none"
              /\ passed' = passed
              /\ SessionsOf(captcha', u) = {}]_vars

\* C12: one invocation of approve_chat_join_request makes at most three approve
\* calls; every call but the last one failed with a rate limit, so there is no
\* call after a success and none after a failure that is no rate limit
AtMostThreeApproveCalls ==
    gate.pc = "returned" =>
        /\ gate.result.calls <= 3
        /\ \A i \in 1..gate.result.calls :
              i < gate.result.calls => IsRateLimited(gate.resp.approve[i])
        /\ gate.result.success => gate.resp.approve[gate.result.calls] = "ok"

ApprovedOnThirdCall ==
    /\ gate.pc = "returned"
    /\ gate.result.calls = 3 /\ gate.result.success
    /\ IsRateLimited(gate.resp.approve[1]) /\ IsRateLimited(gate.resp.approve[2])

\* C13: after every rate-limited attempt whose response carries a retry-after
\* hint of h seconds, the gateway sleeps at least h + 5 seconds before the next
\* attempt
SleepsHintPlusMargin ==
    gate.pc = "returned" =>
        \A i \in 1..Len(gate.result.delays) :
            CarriesHint(gate.resp.approve[i]) =>
                gate.result.delays[i] >= gate.resp.hints[i] + 5

\* the except branch ran its fallback and produced a link
FallbackSucceeded(c, resp) == resp.chat2 /\ (IsPublic(c) \/ resp.invite2)

\* C14: when approve_chat_join_request returns success = false, it tried the
\* fallback link before returning (the handle URL of a public community, an
\* invite link without join request of a private one), and group_link is set
\* exactly when that fallback succeeded
FailureTriesFallbackLink ==
    (gate.pc = "returned" /\ ~gate.result.success) =>
        /\ gate.result.fallback
        /\ gate.result.group_link # "none" <=> FallbackSucceeded(gate.chat, gate.resp)
        /\ gate.result.group_link # "none" =>
              gate.result.group_link = IF IsPublic(gate.chat) THEN "username" ELSE "invite"

FailedWithFallbackInvite ==
    /\ gate.pc = "returned" /\ ~gate.result.success
    /\ ~IsPublic(gate.chat) /\ gate.result.group_link = "invite"
    /\ gate.result.calls > 0

\* the run ended with the correct answer and had k wrong answers before it
RunDone(k) == run.step = 3 /\ run.wrongs = k

\* C15: in a run join request, /start, correct answer on the first try, with
\* approve succeeding, the gateway is invoked exactly once, for the user and
\* the community of the join request, the Approval Marker is set and no
\* Cooldown Marker exists at any point of the run
FirstTryApprovesOnce ==
    /\ [](run.wrongs = 0 => \A u \in Users : ~CheckRateLimit(rate, u))
    /\ [](RunDone(0) => run.gwcalls = 1)
    /\ [][(run.step = 2 /\ RunDone(0)') =>
            /\ out'.gw = "ok" /\ out'.user = run.user /\ out'.chat = run.chat
            /\ passed'[run.user][run.chat] = CAPTCHA_PASSED_TTL]_vars
    /\ [][run.step < 2 => out'.gw = "none"]_vars

\* the chat of the run can be resolved: private_<id> names carry it, a public
\* one needs the join_request record of the user, which lives 3600 seconds
RunChatResolvable ==
    ~IsPublic(run.chat) \/ joinReq[run.user][GroupIdOf(run.chat)].ttl > 0

\* C15, amended: the same, provided the community is private or the correct
\* answer arrives while the join_request record still exists; after its 3600
\* seconds the gateway is not invoked and no Approval Marker is written
FirstTryApprovesOnceWhileRequestKnown ==
    /\ [](run.wrongs = 0 => \A u \in Users : ~CheckRateLimit(rate, u))
    /\ [][(run.step = 2 /\ RunDone(0)') =>
            IF RunChatResolvable
            THEN /\ run'.gwcalls = 1
                 /\ out'.gw = "ok" /\ out'.user = run.user /\ out'.chat = run.chat
                 /\ passed'[run.user][run.chat] = CAPTCHA_PASSED_TTL
            ELSE /\ run'.gwcalls = 0
                 /\ out'.gw = "none" /\ passed' = passed]_vars
    /\ [][run.step < 2 => out'.gw = "none"]_vars

FirstTryWitness ==
    /\ RunDone(0) /\ out.gw = "ok" /\ IsPublic(run.chat)
    /\ passed[run.user][run.chat] = CAPTCHA_PASSED_TTL

\* the attempt count of the Session of u, in the store record and in the FSM copy
AttemptCountIs(store, f, u, k) ==
    /\ \A r \in SessionsOf(store, u) : r.attempts = k
    /\ SessionsOf(store, u) # {}
    /\ f[u].data.attempts = k

\* C16: in a run wrong, wrong, correct within one Session, the attempt count is
\* 1 after the first wrong answer and 2 after the second, the third answer is
\* verified against the challenge generated after the second wrong answer, the
\* Session is deleted on success, and no Cooldown Marker is ever created
ThirdTryVerifiedAgainstNewChallenge ==
    /\ [](\A u \in Users : ~CheckRateLimit(rate, u))
    /\ [][(run.step = 2 /\ run'.wrongs = run.wrongs + 1) =>
            AttemptCountIs(captcha', fsm', run.user, run'.wrongs)]_vars
    /\ [][(run.step = 2 /\ run.wrongs = 2 /\ RunDone(2)') =>
            /\ SessionsOf(captcha', run.user) = {}
            /\ \A t \in Texts :
                  ProcessCaptchaAnswer(run.user, t) => TrimmedFoldedEqual(t, run.gen)]_vars

ThirdTryWitness ==
    /\ RunDone(2) /\ out.op = "answer" /\ out.branch = "verified"
    /\ SessionsOf(captcha, run.user) = {}
    /\ fsm[run.user].state = "none"

\* this step handles the member event of the user the gateway approved
HandlesJoinOfApproved ==
    /\ tasks.pc \in {"approved", "done"}
    /\ out'.op = "mute" /\ out'.user = tasks.user /\ out'.chat = tasks.chat

AtMostThreeWrongPerSession ==
    run.clean => run.wrongs <= 3

\* this step is a /start or an answer of u that was abandoned on an internal
\* failure: the generation raised, or a message could not be delivered
Abandoned(u) ==
    /\ out'.op \in {"start", "answer"} /\ out'.user = u
    /\ out'.branch \in {"aborted", "gen_failed", "undelivered"}

\* C19: a transition abandoned on an internal failure leaves the Session as it
\* was or absent, in both places that hold it: the store record and the FSM
\* data of the user
AbandonedLeavesSessionIntact ==
    [][\A u \in Users :
          Abandoned(u) =>
              /\ SessionsOf(captcha', u) \subseteq SessionsOf(captcha, u)
              /\ fsm'[u] \in {fsm[u], Cleared}]_vars

\* when the timer tm fires, a Session of its user exists and has its target
SessionStillThere(tm) ==
    \E r \in SessionsOf(captcha, tm.user) : r.ttl > tm.left /\ r.group = tm.group

\* C20: a reminder timer sends its reminder only if, when it fires 120 seconds
\* after it was scheduled, a Session of the user still exists and its target
\* is the timer's target; when the Session was deleted, has expired or is for
\* another community, the timer does nothing
ReminderOnlyForLiveSession ==
    /\ [](\A tm \in timers : tm.left > 0 /\ tm.left <= REMINDER_DELAY)
    /\ [][\A d \in TickSteps :
            (out'.op = "tick" /\ Tick(d)) =>
                /\ out'.reminded \subseteq {tm \in timers : tm.left <= d}
                /\ \A tm \in timers :
                      tm.left <= d => (tm \in out'.reminded <=> SessionStillThere(tm))]_vars

ReminderSentWitness ==
    /\ out.op = "tick"
    /\ \E tm \in out.reminded :
          \E r \in SessionsOf(captcha, tm.user) : r.group = tm.group /\ r.attempts > 0

\* C21: for every challenge kind, the exact answer string generate_visual_captcha
\* returned is accepted by the comparison of the answer handler, also when the
\* handler reads the answer back from the stored Session record
ExactAnswerAccepted ==
    run.step = 3 => run.accepted

ExactAnswerReadBackAccepted ==
    /\ run.step = 3 /\ run.accepted
    /\ run.group = <<>> /\ run.choice.kind = "text"
    /\ ParseRecord(run.raw).answer = run.answer

\* the value of the expression on the image
DisplayedValue(t) ==
    CASE t[2] = "+" -> t[1] + t[3]
      [] t[2] = "-" -> t[1] - t[3]
      [] t[2] = "x" -> t[1] * t[3]

\* C22: the generated answer is, for the numeric kind, an integer in 1..50; for
\* the alphanumeric kind, 4 characters of an alphabet without I, O, 0 and 1;
\* for the arithmetic kind, the value of the displayed a op b with op one of
\* +, -, x, which is not negative because a subtraction shows the larger
\* operand first
GeneratedAnswerInRange ==
    run.step >= 1 =>
        CASE run.choice.kind = "number" ->
                 \E n \in 1..50 : run.answer = Decimal(n)
          [] run.choice.kind = "text" ->
                 /\ Len(run.answer) = 4
                 /\ \A i \in 1..4 :
                       /\ run.answer[i] \notin {"I", "O", "0", "1"}
                       /\ run.answer[i] \in CaptchaChars
          [] run.choice.kind = "math" ->
                 /\ run.text_to_draw[2] \in {"+", "-", "x"}
                 /\ run.answer = Decimal(DisplayedValue(run.text_to_draw))
                 /\ DisplayedValue(run.text_to_draw) >= 0
                 /\ run.answer[1] # "-"
                 /\ run.text_to_draw[2] = "-" =>
                       run.text_to_draw[1] >= run.text_to_draw[3]

SubtractionSwapped ==
    /\ run.step >= 1 /\ run.choice.kind = "math" /\ run.choice.op = "-"
    /\ run.choice.a < run.choice.b
    /\ run.text_to_draw = <<run.choice.b, "-", run.choice.a>>

\* C23: every restriction by the moderation decision has the fixed duration of
\* 366 * 10 days and is followed by one call of the flagging of the user; the
\* decision returns True whether the flagging succeeded or failed, and nobody
\* is flagged without having been restricted
RestrictionIsLongAndFlagged ==
    out.op = "mute" =>
        /\ out.restrict => out.days = 3660
        /\ (out.restrict /\ out.flag # "none") => out.ret
        /\ out.ret => (out.restrict /\ out.flag \in {"flagged", "flag_failed"})
        /\ out.flag # "none" => out.ret

RestrictedWithFailedFlagging ==
    out.op = "mute" /\ out.restrict /\ out.ret /\ out.flag = "flag_failed"
    /\ out.days = 3660


\* the step is the answer handler of u taking the retry branch: the text is
\* compared, is wrong, and attempts are left after counting it
RetryStep(u) ==
    /\ out'.op = "answer" /\ out'.user = u
    /\ out'.branch \in {"retry", "aborted"}
    /\ ReachesComparison(u)
    /\ ChallengeData(fsm, captcha, u).attempts + 1 < MAX_ATTEMPTS
    /\ \E t \in Texts : ~Verify(t, ChallengeData(fsm, captcha, u).answer)
                        /\ ProcessCaptchaAnswer(u, t)

\* what the retry branch leaves alone
RetryFrame(u) ==
    /\ rate' = rate
    /\ passed' = passed
    /\ joinReq' = joinReq
    /\ out'.gw = "none"
    /\ \A r2 \in SessionsOf(captcha', u) : r2.group = ChallengeData(fsm, captcha, u).group
    /\ HoldsCopy(fsm', u) => fsm'[u].data.group = fsm[u].data.group

\* what the retry branch writes once the new challenge is generated and sent
RetryEffect(u) ==
    LET d == ChallengeData(fsm, captcha, u) IN
    /\ SessionsOf(captcha', u) # {}
    /\ \A r2 \in SessionsOf(captcha', u) :
          /\ r2.attempts = d.attempts + 1
          /\ r2.ttl = CAPTCHA_TTL
          /\ r2.answer \in Answers
          /\ HoldsCopy(fsm', u)
          /\ fsm'[u].data.answer = r2.answer
          /\ fsm'[u].data.attempts = r2.attempts

AnswerDuringCooldown(u) ==
    /\ out'.op = "answer" /\ out'.user = u
    /\ CheckRateLimit(rate, u)
    /\ \E t \in Texts : ProcessCaptchaAnswer(u, t)

\* C25: while the Cooldown Marker of a user exists, an answer of that user is
\* rejected before verification: Session, attempt_count, the marker's TTL and
\* the Approval Markers stay as they are, no gateway is called, and the time
\* left that is reported is the remaining TTL of the marker, within 0..60
CooldownRejectsUntouched ==
    [][\A u \in Users :
          AnswerDuringCooldown(u) =>
              /\ out'.branch = "cooldown"
              /\ out'.gw = "none"
              /\ captcha' = captcha
              /\ fsm' = fsm
              /\ rate' = rate
              /\ passed' = passed
              /\ out'.n = rate[u]
              /\ out'.n \in 0..RATE_LIMIT_SECONDS]_vars

\* an answer was turned away 35 seconds into the cooldown although a live Session
\* exists and a text that matches its answer can be sent
RightAnswerTurnedAway ==
    /\ out.op = "answer" /\ out.branch = "cooldown"
    /\ out.n = RATE_LIMIT_SECONDS - 35
    /\ \E u \in Users :
          /\ out.user = u
          /\ HoldsCopy(fsm, u)
          /\ \E r \in SessionsOf(captcha, u) : r.answer = fsm[u].data.answer
          /\ \E t \in Texts : Verify(t, fsm[u].data.answer)


\* the step writes an Approval Marker
MarkerWritten ==
    \E u \in Users, c \in Communities : passed'[u][c] > passed[u][c]

\* C26: on a correct answer the Session is deleted first, the gateway is called
\* next and only with a resolved chat id, and the Approval Marker is written
\* last and only when the gateway succeeded; without a chat id the handler ends
\* with no gateway call and no marker
DeleteThenApproveThenMark ==
    [][/\ (tasks'.pc = "deleted" /\ tasks.pc # "deleted") =>
             SessionsOf(captcha', tasks'.user) = {}
       /\ (tasks'.pc = "called" /\ tasks.pc # "called") =>
             /\ tasks.pc = "deleted"
             /\ tasks'.chat # NoChat
             /\ tasks'.chat = ResolveChatId(joinReq, tasks.user, tasks.group)
             /\ ~MarkerWritten
       /\ MarkerWritten =>
             /\ tasks.pc = "called" /\ tasks'.pc = "done"
             /\ ApproveChatJoinRequest(tasks.chat, tasks.resp).success
             /\ passed' = [passed EXCEPT ![tasks.user][tasks.chat] = CAPTCHA_PASSED_TTL]
       /\ (tasks.pc = "called" /\ tasks'.pc = "done"
           /\ ~ApproveChatJoinRequest(tasks.chat, tasks.resp).success) =>
             passed' = passed
       /\ (tasks.pc = "deleted" /\ tasks'.pc = "done") =>
             /\ ResolveChatId(joinReq, tasks.user, tasks.group) = NoChat
             /\ out'.gw = "none"
             /\ passed' = passed]_vars

\* the handler went through its three calls and the marker is in the store
MarkedAfterApproval ==
    /\ tasks.pc = "done" /\ tasks.chat # NoChat
    /\ out.op = "answer" /\ out.gw = "ok"
    /\ passed[tasks.user][tasks.chat] = CAPTCHA_PASSED_TTL
    /\ SessionsOf(captcha, tasks.user) = {}

\* the handler ended after the delete because no chat id was found
EndedUnresolved ==
    /\ tasks.pc = "done" /\ tasks.chat = NoChat
    /\ out.op = "answer" /\ out.branch = "verified" /\ out.gw = "none"


\* the most platform calls of one approve_chat_join_request: get_chat, three
\* approve calls, the invite, and get_chat and the invite of the fallback
MostPlatformCalls == 1 + max_retries + 1 + 2

\* the most sleeps: at the start, between the approve calls, before the invite
\* and before the fallback
MostSleeps == 1 + (max_retries - 1) + 1 + 1

\* C27: whatever the platform answers to get_chat, approve and
\* create_chat_invite_link, approve_chat_join_request returns after at most 7
\* platform calls and 5 sleeps a result with success, message and group_link,
\* and lets no exception out
GatewayAlwaysReturns ==
    /\ gate.pc = "called" => ENABLED GatewayReturns
    /\ gate.pc = "returned" =>
          /\ ~gate.result.raised
          /\ gate.result.success \in BOOLEAN
          /\ gate.result.message \in {"approved", "failed"}
          /\ gate.result.group_link \in {"none", "username", "invite"}
          /\ gate.result.platform \in 1..MostPlatformCalls
          /\ gate.result.sleeps \in 1..MostSleeps
          /\ gate.result.calls \in 0..max_retries

\* the longest run: two rate limits, the approval, a failed invite, and a
\* fallback that fails too
LongestGatewayRun ==
    /\ gate.pc = "returned"
    /\ gate.result.platform = MostPlatformCalls
    /\ gate.result.sleeps = MostSleeps
    /\ gate.result.success /\ gate.result.group_link = "none"


\* the step is a chat_member update of u in c handled by the moderation router
ModerationStep(u, c) ==
    /\ out'.op \in {"mute", "mute_store_failed", "mute_unapproved"}
    /\ out'.user = u /\ out'.chat = c

\* C28: the handling of a member-state-changed event creates, overwrites and
\* deletes no Approval Marker, no Session and no Cooldown Marker; what a
\* successful read of the setting returns is the same after the step as before,
\* and the decision is the one the store dictates (join transition, setting
\* on, no marker) whatever the number of deliveries handled before
ModerationOnlyReads ==
    [][\A u \in Users, c \in Communities :
          ModerationStep(u, c) =>
              /\ passed' = passed
              /\ captcha' = captcha
              /\ rate' = rate
              /\ fsm' = fsm
              /\ joinReq' = joinReq
              /\ \A c2 \in Communities :
                    RestrictionEnabled(c2, TRUE)' <=> RestrictionEnabled(c2, TRUE)
              /\ out'.op = "mute" =>
                    \A e \in ModerationEvents, dbOk \in BOOLEAN, restrictOk \in BOOLEAN :
                    MuteManuallyApprovedMember(u, c, e[1], e[2], dbOk, restrictOk) =>
                        (out'.restrict <=>
                            /\ IsJoinTransition(e[1], e[2])
                            /\ RestrictionEnabled(c, dbOk)
                            /\ passed[u][c] = 0)]_vars

\* the same event was delivered again to a user with a marker: the marker is
\* there as before and nobody is restricted
RepeatedDeliveryKeepsMarker ==
    /\ out.op = "mute" /\ out.n >= 2 /\ ~out.restrict
    /\ \E u \in Users, c \in Communities :
          /\ out.user = u /\ out.chat = c
          /\ passed[u][c] > 0
          /\ muteCache[c] = "1"


JoinEvents == {e \in ModerationEvents : IsJoinTransition(e[1], e[2])}

\* C29: the moderation decision ends with a Boolean result and never with an
\* exception: a failed read of the setting counts as disabled and nobody is
\* restricted; with the setting read, a failed read of the marker or a failed
\* restrict call makes it return False
ModerationFailuresReturnFalse ==
    [][\A u \in Users, c \in Communities :
             /\ ModerationStep(u, c) => out'.ret \in BOOLEAN
             /\ (out'.op = "mute_store_failed" /\ out'.user = u /\ out'.chat = c) =>
                   /\ \E e \in JoinEvents, at \in StoreReads :
                         MuteStoreFails(u, c, e[1], e[2], at)
                   /\ ~out'.restrict /\ ~out'.ret
             /\ (out'.op = "mute" /\ out'.user = u /\ out'.chat = c) =>
                   \A e \in JoinEvents, restrictOk \in BOOLEAN :
                      /\ MuteManuallyApprovedMember(u, c, e[1], e[2], FALSE, restrictOk)
                            => ~out'.restrict /\ ~out'.ret
                      /\ MuteManuallyApprovedMember(u, c, e[1], e[2], TRUE, FALSE)
                            => out'.restrict /\ ~out'.ret]_vars

\* the restrict call was made for a join and failed: the decision returned False
RestrictCallFailed ==
    /\ out.op = "mute" /\ out.restrict /\ ~out.ret /\ out.flag = "none"
    /\ muteCache[out.chat] = "1"

\* the marker could not be read although restriction is on
MarkerReadFailed ==
    /\ out.op = "mute_store_failed" /\ out.branch = "marker_failed" /\ ~out.ret
    /\ muteCache[out.chat] = "1"


WrittenAgo(r) == CAPTCHA_TTL - r.ttl

\* the timer tm, firing tm.left seconds from now, was scheduled before the
\* Session record r, written by /start with attempt count 0, was created
ScheduledBeforeSession(tm, r) ==
    r.attempts = 0 /\ WrittenAgo(r) + tm.left < REMINDER_DELAY

\* C31: a timer scheduled for a Session that was deleted or replaced sends no
\* reminder for the brand-new Session the user obtained since, also when the
\* target community is the same: every reminder a Session whose challenge was
\* delivered gets comes from a timer scheduled during its lifetime
RemindersOnlyFromOwnTimers ==
    [][out'.op = "tick" =>
          \A tm \in out'.reminded :
              \A r \in SessionsOf(captcha, tm.user) :
                  (HoldsCopy(fsm, tm.user) /\ fsm[tm.user].data.answer = r.answer)
                      => ~ScheduledBeforeSession(tm, r)]_vars


\* C32: the chat id resolved at the correct answer is the chat of the join
\* request whose deep link opened the Session: approve is called for the pair
\* of the original request and for no other
ResolvedIsTheRequestedChat ==
    run.approve.chat # NoChatId => run.approve.chat = run.approve.origin


\* the user was locked out and the cooldown is over
CooldownOver(u) == run.locked /\ ~CheckRateLimit(rate, u)

\* C33: the lockout writes a Cooldown Marker of 60 seconds and nothing that
\* lasts longer: once the marker is gone, /start issues a challenge with
\* attempt count 0 and the correct answer to it is verified, with the gateway
\* called whenever the chat id is resolved
RecoversAfterCooldown ==
    /\ [](\A u \in Users : rate[u] <= RATE_LIMIT_SECONDS)
    /\ [][\A u \in Users :
            CooldownOver(u) =>
              /\ (out'.op = "start" /\ out'.user = u /\ out'.branch = "issued") =>
                    /\ HoldsCopy(fsm', u) /\ fsm'[u].data.attempts = 0
                    /\ \E r \in SessionsOf(captcha', u) :
                          r.attempts = 0 /\ r.ttl = CAPTCHA_TTL
                          /\ r.answer = fsm'[u].data.answer
                    /\ ~CheckRateLimit(rate', u)
              /\ (out'.op = "answer" /\ out'.user = u /\ HoldsCopy(fsm, u)
                  /\ fsm[u].data.attempts < MAX_ATTEMPTS) =>
                    \A t \in Texts :
                       (Verify(t, ChallengeData(fsm, captcha, u).answer)
                        /\ ProcessCaptchaAnswer(u, t)) =>
                           /\ out'.branch = "verified"
                           /\ ResolveChatId(joinReq, u, ChallengeData(fsm, captcha, u).group)
                                 # NoChat => out'.gw \in {"ok", "fail"}]_vars

\* after a lockout and its cooldown the user was admitted
AdmittedAfterLockout ==
    /\ run.locked
    /\ out.op = "answer" /\ out.branch = "verified" /\ out.gw = "ok"
    /\ \E u \in Users : out.user = u /\ rate[u] = 0 /\ passed[u][out.chat] > 0


\* one of the approve calls this invocation made returned without error
SomeApproveCallSucceeded ==
    \E i \in 1..gate.result.calls : gate.resp.approve[i] = "ok"

\* C34: in the result of approve_chat_join_request, success is true exactly
\* when one of the approve calls of the invocation returned without error, and
\* a result with success = true carries the approval message, never the
\* failure message, also when the entry link could not be created afterwards
ResultIsConsistent ==
    gate.pc = "returned" =>
        /\ gate.result.success <=> SomeApproveCallSucceeded
        /\ gate.result.success => gate.result.message = "approved"


\* the FSM data of u and the Session record of u: both absent, or the same
\* answer, target and attempt count
StateMatchesSession(f, store, u) ==
    IF HoldsCopy(f, u)
    THEN \E r \in SessionsOf(store, u) :
            /\ r.answer = f[u].data.answer
            /\ r.group = f[u].data.group
            /\ r.attempts = f[u].data.attempts
    ELSE SessionsOf(store, u) = {}

\* C35: at the end of every invocation of the /start handler or of the answer
\* handler, the FSM data of the user and the Session record of the user are
\* both absent or hold the same answer, target and attempt count
HandlerStateMatchesSession ==
    [][(out'.op \in {"start", "answer"} /\ out'.branch # "not_routed")
          => StateMatchesSession(fsm', captcha', out'.user)]_vars


\* C36: while access control is enabled, the wrapped handler is invoked for a
\* message, a callback or a member-state change only if the acting user is the
\* allowed user or the event is a member-state change of the bot itself; a
\* join request passes whatever the flag; with the flag off every event passes
AccessControlGates ==
    \A i \in 1..Len(run.log) :
        LET x == run.log[i] IN
        /\ (x.enabled /\ x.event.kind \in {"message", "callback", "member"}
              /\ x.outcome = "invoked")
               => \/ x.event.user = ALLOWED_USER_ID
                  \/ (x.event.kind = "member" /\ x.event.subject = BotId)
        /\ x.event.kind = "join_request" => x.outcome = "invoked"
        /\ ~x.enabled => x.outcome = "invoked"

\* a stranger's message was turned away under the flag and let through
\* without it, and a stranger's member-state change was turned away
StrangerBlockedThenAdmitted ==
    /\ Len(run.log) >= 2
    /\ \E i, j \in 1..Len(run.log) :
          /\ run.log[i].enabled /\ run.log[i].event.user = StrangerId
          /\ run.log[i].event.kind \in {"message", "member"}
          /\ run.log[i].outcome = "blocked"
          /\ ~run.log[j].enabled /\ run.log[j].event.user = StrangerId
          /\ run.log[j].event.kind = "message"
          /\ run.log[j].outcome = "invoked"


\* C37: after set_mute_new_members_status returns, the cached flag and the
\* persisted setting agree: on True both hold the new value, on False the
\* cached flag still holds the value it had before the call
SetMuteLeavesCacheAgreed ==
    [][out'.op = "setmute" =>
          \A c \in Communities :
              out'.chat = c =>
                  IF out'.ret
                  THEN muteCache'[c] = muteDb'[c] /\ muteCache'[c] \in {"0", "1"}
                  ELSE muteCache'[c] = muteCache[c]]_vars


\* the positions of the prompt in the effects of a handler run
PromptSends(effects) ==
    {i \in 1..Len(effects) : effects[i] \in {"send_message", "send_failed"}}

====
